---- MODULE Spec2Model ----
(***************************************************************************)
(* A model of the vibesql SQL frontend: the analyzer (scope stack, name    *)
(* resolution, type checker), the lexer (token scanning and lookahead      *)
(* buffer) and the parser (statement list, Pratt expression parser,        *)
(* SELECT items).                                                          *)
(*                                                                         *)
(* Spec        the Analyzer: a sequence of top-level analyze() /           *)
(*             analyze_query_result() calls on one Analyzer instance.      *)
(* SpecLexer   one Lexer over a source: any interleaving of peek(),        *)
(*             peek_nth(n) and next_token_result() calls.                  *)
(* SpecParser  one Parser over a source: a sequence of parse(),            *)
(*             parse_statement(), parse_query(), parse_expression() calls. *)
(* SpecTypeChecker  TypeChecker::check_expr applied to one expression.     *)
(* SpecSqlType      SqlType::common_supertype and can_coerce_to applied to *)
(*             a pair of types.                                            *)
(* SpecCatalog      one CatalogBuilder and the MemoryCatalog it builds:    *)
(*             with_builtins, add_function, add_schema, build, then        *)
(*             resolve_function, resolve_table and list_schemas.           *)
(***************************************************************************)
EXTENDS Integers, Sequences, FiniteSets, TLC

VARIABLES
    scopes,     \* Analyzer.scopes: Vec<Scope>
    errors,     \* Analyzer.errors: Vec<AnalyzerError>
    aCalls,     \* number of top-level calls made on this Analyzer
    aLast       \* the last top-level call: its argument and result

VARIABLES
    input,      \* Lexer.input, as byte slots
    lpos,       \* Lexer.pos
    lstart,     \* Lexer.start
    peeked,     \* Lexer.peeked: Vec<Token>
    checks,     \* whether the build checks integer overflow (overflow-checks)
    lOut,       \* what the calls of next_token_result returned, in order
    lLast,      \* the last call on the lexer and what it returned
    lPanicked   \* a call panicked

VARIABLES
    pTokens,    \* the tokens the Parser's lexer yields for the source
    pPos,       \* how many of them the parser has taken
    pCalls,     \* number of calls made on this Parser
    pLast       \* the last call: where it started and what it returned

VARIABLES
    tcExpr,     \* the expression handed to TypeChecker::check_expr
    tcLast      \* the call made on it and what it returned

VARIABLES
    stA,        \* the SqlType `self`
    stB,        \* the SqlType `other`
    stLast      \* the call made on the pair and what it returned

VARIABLES
    schemas,            \* MemoryCatalog.schemas: name -> tables (name -> TableSchema)
    functions,          \* MemoryCatalog.functions: name -> FunctionSignature
    include_builtins,   \* CatalogBuilder.include_builtins
    built,              \* build() has consumed the builder
    cAdded,             \* the functions added through the builder, in order
    cCalls,             \* number of calls made on the builder and the catalog
    cLast               \* the last query on the catalog and what it returned

aVars == <<scopes, errors, aCalls, aLast>>
lVars == <<input, lpos, lstart, peeked, checks, lOut, lLast, lPanicked>>
pVars == <<pTokens, pPos, pCalls, pLast>>
tVars == <<tcExpr, tcLast>>
sVars == <<stA, stB, stLast>>
cVars == <<schemas, functions, include_builtins, built, cAdded, cCalls, cLast>>
vars == <<aVars, lVars, pVars, tVars, sVars, cVars>>

\* ------------------------------------------------------------------ bounds

\* Top-level calls made on one Analyzer instance.
MaxCalls == 2

\* ------------------------------------------------------------ SqlType

\* SqlType as a record of uniform shape; precision/scale -1 is None,
\* elem is <<>> or <<element type>>.
T(tag) == [tag |-> tag, precision |-> -1, scale |-> -1, elem |-> <<>>]

is_integer(t) == t.tag \in {"Int32", "Int64", "Uint32", "Uint64"}
is_floating_point(t) == t.tag \in {"Float32", "Float64"}

\* One arm `(X, Y) | (Y, X)` of a match on (self, other).
Arm(a, b, x, y) == (a.tag = x /\ b.tag = y) \/ (a.tag = y /\ b.tag = x)

\* SqlType::common_supertype answering Some(self) for every pair
common_supertype_self(a, b) == <<a>>

\* SqlType::common_supertype: <<>> is None, <<t>> is Some(t).  The arms are
\* tried in the order of the match.
RECURSIVE common_supertype(_, _)
common_supertype(a, b) ==
    IF a = b THEN <<a>>
    \* Integer promotions
    ELSE IF Arm(a, b, "Int32", "Int64") THEN <<T("Int64")>>
    ELSE IF Arm(a, b, "Uint32", "Uint64") THEN <<T("Uint64")>>
    ELSE IF Arm(a, b, "Int32", "Uint32") THEN <<T("Int64")>>
    ELSE IF Arm(a, b, "Int32", "Uint64") THEN <<T("Float64")>>
    ELSE IF Arm(a, b, "Int64", "Uint64") THEN <<T("Float64")>>
    ELSE IF Arm(a, b, "Uint32", "Int64") THEN <<T("Int64")>>
    \* Float promotions
    ELSE IF Arm(a, b, "Float32", "Float64") THEN <<T("Float64")>>
    \* Integer to float promotions
    ELSE IF Arm(a, b, "Int32", "Float32") THEN <<T("Float32")>>
    ELSE IF Arm(a, b, "Int32", "Float64") THEN <<T("Float64")>>
    ELSE IF Arm(a, b, "Int64", "Float32") THEN <<T("Float64")>>
    ELSE IF Arm(a, b, "Int64", "Float64") THEN <<T("Float64")>>
    ELSE IF Arm(a, b, "Uint32", "Float32") THEN <<T("Float32")>>
    ELSE IF Arm(a, b, "Uint32", "Float64") THEN <<T("Float64")>>
    ELSE IF Arm(a, b, "Uint64", "Float32") THEN <<T("Float64")>>
    ELSE IF Arm(a, b, "Uint64", "Float64") THEN <<T("Float64")>>
    \* Numeric supertypes: (t, Numeric) | (Numeric, t) if t is integer or float
    ELSE IF (b.tag = "Numeric" /\ (is_integer(a) \/ is_floating_point(a)))
            \/ (a.tag = "Numeric" /\ (is_integer(b) \/ is_floating_point(b)))
         THEN <<[tag |-> "Numeric", precision |-> -1, scale |-> -1, elem |-> <<>>]>>
    \* Date/time types
    ELSE IF Arm(a, b, "Date", "Datetime") THEN <<T("Datetime")>>
    ELSE IF Arm(a, b, "Date", "Timestamp") THEN <<T("Timestamp")>>
    ELSE IF Arm(a, b, "Datetime", "Timestamp") THEN <<T("Timestamp")>>
    \* (Unknown, other) | (other, Unknown): the first alternative binds first
    ELSE IF a.tag = "Unknown" THEN <<b>>
    ELSE IF b.tag = "Unknown" THEN <<a>>
    ELSE IF a.tag = "Any" \/ b.tag = "Any" THEN <<T("Any")>>
    ELSE IF a.tag = "Array" /\ b.tag = "Array"
         THEN LET e == common_supertype(a.elem[1], b.elem[1])
              IN  IF e = <<>> THEN <<>> ELSE <<[tag |-> "Array", precision |-> -1, scale |-> -1,
                                                 elem |-> <<e[1]>>]>>
    ELSE <<>>

\* SqlType::can_coerce_to, the arms in the order of the match.
RECURSIVE can_coerce_to(_, _)
can_coerce_to(a, target) ==
    IF a = target THEN TRUE
    \* Integer widening
    ELSE IF a.tag = "Int32" /\ target.tag = "Int64" THEN TRUE
    ELSE IF a.tag = "Uint32" /\ target.tag \in {"Uint64", "Int64"} THEN TRUE
    \* Integers to floating point
    ELSE IF a.tag = "Int32" /\ target.tag \in {"Float32", "Float64"} THEN TRUE
    ELSE IF a.tag = "Int64" /\ target.tag = "Float64" THEN TRUE
    ELSE IF a.tag = "Uint32" /\ target.tag \in {"Float32", "Float64"} THEN TRUE
    ELSE IF a.tag = "Uint64" /\ target.tag = "Float64" THEN TRUE
    ELSE IF a.tag = "Float32" /\ target.tag = "Float64" THEN TRUE
    \* Integers and floats to Numeric { .. }
    ELSE IF (is_integer(a) \/ is_floating_point(a)) /\ target.tag = "Numeric" THEN TRUE
    \* Date/time
    ELSE IF a.tag = "Date" /\ target.tag \in {"Datetime", "Timestamp"} THEN TRUE
    ELSE IF a.tag = "Datetime" /\ target.tag = "Timestamp" THEN TRUE
    ELSE IF a.tag = "Unknown" THEN TRUE
    ELSE IF target.tag = "Any" THEN TRUE
    ELSE IF a.tag = "Array" /\ target.tag = "Array"
         THEN can_coerce_to(a.elem[1], target.elem[1])
    ELSE FALSE

\* ------------------------------------------------------------- names

\* str::to_lowercase on the identifiers the model uses.
to_lowercase(s) ==
    CASE s = "ID" -> "id"
      [] s = "Users" -> "users"
      [] s = "Sales" -> "sales"
      [] s = "SALES" -> "sales"
      [] s = "A" -> "a"
      [] s = "U" -> "u"
      [] OTHER -> s

\* The keys a Scope's `tables` map can hold, in one fixed order.
KeyOrder == <<"a", "b", "orders", "u", "users", "x", "y">>

Reverse(s) == [i \in 1..Len(s) |-> s[Len(s) + 1 - i]]

\* std HashMap iteration order is unspecified and differs between builds
\* and runs.  Every scope of the modelled statements holds at most two
\* tables, so one order and its reverse cover every iteration order.
HashOrders == {KeyOrder, Reverse(KeyOrder)}

RECURSIVE FilterKeys(_, _)
FilterKeys(ord, keys) ==
    IF ord = <<>> THEN <<>>
    ELSE IF Head(ord) \in keys THEN <<Head(ord)>> \o FilterKeys(Tail(ord), keys)
    ELSE FilterKeys(Tail(ord), keys)

\* HashMap::insert
MapInsert(m, k, v) == [x \in DOMAIN m \cup {k} |-> IF x = k THEN v ELSE m[x]]

EmptyMap == [x \in {} |-> 0]

\* ------------------------------------------------------------ catalog

Column(name, ty, nullable) == [name |-> name, data_type |-> ty, nullable |-> nullable]

\* setup_test_catalog(): the default schema of the MemoryCatalog.
CatalogTables ==
    [ users |-> [name |-> "users",
                 columns |-> << Column("id", T("Int64"), FALSE),
                                Column("name", T("Varchar"), TRUE),
                                Column("age", T("Int64"), TRUE),
                                Column("email", T("Varchar"), TRUE) >>],
      orders |-> [name |-> "orders",
                  columns |-> << Column("id", T("Int64"), FALSE),
                                 Column("user_id", T("Int64"), TRUE),
                                 Column("amount", T("Float64"), TRUE),
                                 Column("created_at", T("Timestamp"), TRUE) >>] ]

\* MemoryCatalog::resolve_table: <<>> is None.  Schema and table names are
\* looked up as written (exact match).
resolve_table(parts) ==
    LET schema == CASE Len(parts) = 1 -> "default"
                    [] Len(parts) = 2 -> parts[1]
                    [] Len(parts) = 3 -> parts[2]
                    [] OTHER -> ""
        table == IF Len(parts) \in 1..3 THEN parts[Len(parts)] ELSE ""
    IN  IF Len(parts) \in 1..3 /\ schema = "default" /\ table \in DOMAIN CatalogTables
        THEN <<CatalogTables[table]>>
        ELSE <<>>

\* FunctionSignature::scalar / aggregate / window with its argument bounds
\* (with_min_args, with_max_args, with_args): max_args None is <<>>.
FunctionSignature(kind, return_type, min_args, max_args) ==
    [return_type |-> return_type, is_aggregate |-> kind = "aggregate",
     is_window |-> kind = "window", min_args |-> min_args, max_args |-> max_args]

\* MemoryCatalog.functions, keyed by the upper-case name: the built-in
\* UPPER and SUM of register_builtins (no bound on the arguments), and
\* ABS, COUNT and ROW_NUMBER added with add_function with the argument
\* counts they take.
CatalogFunctions ==
    [ UPPER |-> FunctionSignature("scalar", T("Varchar"), 0, <<>>),
      SUM |-> FunctionSignature("aggregate", T("Float64"), 0, <<>>),
      ABS |-> FunctionSignature("scalar", T("Float64"), 1, <<1>>),
      COUNT |-> FunctionSignature("aggregate", T("Int64"), 1, <<1>>),
      ROW_NUMBER |-> FunctionSignature("window", T("Int64"), 0, <<0>>) ]

\* str::to_uppercase on the function names the model uses.
to_uppercase(s) ==
    CASE s = "count" -> "COUNT"
      [] s = "upper" -> "UPPER"
      [] s = "my_func" -> "MY_FUNC"
      [] OTHER -> s

\* MemoryCatalog::resolve_function: <<>> is None.
resolve_function(name) ==
    IF to_uppercase(name) \in DOMAIN CatalogFunctions
    THEN <<CatalogFunctions[to_uppercase(name)]>>
    ELSE <<>>

\* FunctionSignature::accepts_arg_count
accepts_arg_count(sig, count) ==
    IF count < sig.min_args THEN FALSE
    ELSE IF sig.max_args # <<>> THEN count <= sig.max_args[1]
    ELSE TRUE

\* TableSchema::get_column (eq_ignore_ascii_case): <<>> is None.
get_column(schema, name) ==
    LET hits == SelectSeq(schema.columns,
                          LAMBDA c: to_lowercase(c.name) = to_lowercase(name))
    IN  IF hits = <<>> THEN <<>> ELSE <<Head(hits)>>

\* -------------------------------------------------------------- scope

\* Scope::new
NewScope ==
    [tables |-> EmptyMap, ctes |-> EmptyMap,
     group_by_columns |-> <<>>, has_group_by |-> FALSE]

\* ScopeColumn::new
ScopeColumn(name, ty, nullable, alias, idx) ==
    [name |-> name, data_type |-> ty, nullable |-> nullable,
     table_alias |-> alias, column_index |-> idx]

\* ScopeTable::new
ScopeTable(alias, original, columns) ==
    [alias |-> alias, original_name |-> original, columns |-> columns]

\* Scope::add_table: keyed by the lowercased alias; an equal key is replaced.
add_table(scope, table) ==
    [scope EXCEPT !.tables = MapInsert(@, to_lowercase(table.alias), table)]

\* Scope::add_cte
add_cte(scope, cte) ==
    [scope EXCEPT !.ctes = MapInsert(@, to_lowercase(cte.name), cte)]

\* Scope::has_cte
has_cte(scope, name) == to_lowercase(name) \in DOMAIN scope.ctes

\* Scope::lookup_table: <<>> is None.
lookup_table(scope, name) ==
    IF to_lowercase(name) \in DOMAIN scope.tables
    THEN <<scope.tables[to_lowercase(name)]>>
    ELSE <<>>

\* Scope::all_tables: the map's values in the iteration order `ord`.
all_tables(scope, ord) ==
    LET keys == FilterKeys(ord, DOMAIN scope.tables)
    IN  [i \in 1..Len(keys) |-> scope.tables[keys[i]]]

\* The (table, column) pairs of one table whose column name matches.
ColumnHits(table, name_lower) ==
    LET cols == SelectSeq(table.columns, LAMBDA c: to_lowercase(c.name) = name_lower)
    IN  [i \in 1..Len(cols) |-> [table |-> table, col |-> cols[i]]]

RECURSIVE FlatHits(_, _)
FlatHits(tables, name_lower) ==
    IF tables = <<>> THEN <<>>
    ELSE ColumnHits(Head(tables), name_lower) \o FlatHits(Tail(tables), name_lower)

\* Scope::lookup_column: NotFound, Found(column) or Ambiguous(aliases).
lookup_column(scope, name, ord) ==
    LET result(found) ==
            CASE Len(found) = 0 -> [kind |-> "NotFound", col |-> <<>>, tables |-> <<>>]
              [] Len(found) = 1 ->
                    [kind |-> "Found", col |-> <<found[1].col>>, tables |-> <<>>]
              [] OTHER -> [kind |-> "Ambiguous", col |-> <<>>,
                           tables |-> [i \in 1..Len(found) |-> found[i].table.alias]]
    IN  result(FlatHits(all_tables(scope, ord), to_lowercase(name)))

\* Scope::lookup_qualified_column: <<>> is None.
lookup_qualified_column(scope, table_name, column_name) ==
    LET t == lookup_table(scope, table_name)
    IN  IF t = <<>> THEN <<>>
        ELSE LET hits == SelectSeq(t[1].columns,
                            LAMBDA c: to_lowercase(c.name) = to_lowercase(column_name))
             IN  IF hits = <<>> THEN <<>> ELSE <<Head(hits)>>

\* ------------------------------------------------------------- errors

\* AnalyzerError: its kind and the names the kind carries.
AErr(kind, name, tables) == [kind |-> kind, name |-> name, tables |-> tables]
NoErr == AErr("none", "", <<>>)

\* --------------------------------------------------------- expressions

\* Expr nodes (ExprKind), as records of uniform shape.
Expr(kind, name, parts, op, args, dtype) ==
    [kind |-> kind, name |-> name, parts |-> parts, op |-> op,
     args |-> args, dtype |-> dtype]
EInt == Expr("Integer", "", <<>>, "", <<>>, T("Unknown"))
EStr == Expr("String", "", <<>>, "", <<>>, T("Unknown"))
EId(n) == Expr("Identifier", n, <<>>, "", <<>>, T("Unknown"))
ECompound(parts) == Expr("CompoundIdentifier", "", parts, "", <<>>, T("Unknown"))
EBin(op, l, r) == Expr("BinaryOp", "", <<>>, op, <<l, r>>, T("Unknown"))
EUnary(op, e) == Expr("UnaryOp", "", <<>>, op, <<e>>, T("Unknown"))
ECast(e, ty) == Expr("Cast", "", <<>>, "", <<e>>, ty)
EParen(e) == Expr("Parenthesized", "", <<>>, "", <<e>>, T("Unknown"))
\* ExprKind::Function / Aggregate / WindowFunction (`kind`): the last part
\* of the function's name and its arguments, all FunctionArg::Unnamed.
ECall(kind, name, args) == Expr(kind, name, <<>>, "", args, T("Unknown"))

\* TypedExpr
TypedExpr(ty, nullable, agg, win) ==
    [data_type |-> ty, nullable |-> nullable,
     contains_aggregate |-> agg, contains_window |-> win]
non_null(ty) == TypedExpr(ty, FALSE, FALSE, FALSE)
nullable(ty) == TypedExpr(ty, TRUE, FALSE, FALSE)

\* Result<TypedExpr, AnalyzerError>
TOk(te) == [ok |-> TRUE, te |-> te, err |-> NoErr]
TErr(e) == [ok |-> FALSE, te |-> non_null(T("Unknown")), err |-> e]

\* TypeChecker::check_column; table_name is <<>> (None) or <<t>>.
check_column(col_name, table_name, scope, ord) ==
    LET qualified(col) ==
            IF col # <<>>
            THEN TOk(TypedExpr(col[1].data_type, col[1].nullable, FALSE, FALSE))
            ELSE TErr(AErr("ColumnNotFound", col_name, table_name))
        bare(r) ==
            CASE r.kind = "Found" ->
                    TOk(TypedExpr(r.col[1].data_type, r.col[1].nullable, FALSE, FALSE))
              [] r.kind = "NotFound" -> TErr(AErr("ColumnNotFound", col_name, <<>>))
              [] OTHER -> TErr(AErr("AmbiguousColumn", col_name, r.tables))
    IN  IF table_name # <<>>
        THEN qualified(lookup_qualified_column(scope, table_name[1], col_name))
        ELSE bare(lookup_column(scope, col_name, ord))

\* The result type of TypeChecker::check_binary_op for `op`.
binary_result_type(op, lt, rt) ==
    CASE op \in {"Eq", "NotEq", "Lt", "LtEq", "Gt", "GtEq"} -> T("Bool")
      [] op \in {"And", "Or"} -> T("Bool")
      [] op \in {"Plus", "Minus", "Multiply", "Divide", "Modulo"} ->
            LET c == common_supertype(lt, rt)
            IN  IF c = <<>> THEN T("Float64") ELSE c[1]
      [] op = "Concat" -> T("Varchar")
      [] OTHER -> T("Int64")

\* The first failed result of a sequence of results, or the last result.
RECURSIVE FirstFailure(_)
FirstFailure(rs) ==
    IF Len(rs) = 1 \/ ~Head(rs).ok THEN Head(rs) ELSE FirstFailure(Tail(rs))

RECURSIVE check_expr(_, _, _)
RECURSIVE check_function(_, _, _)
RECURSIVE check_aggregate(_, _, _)
RECURSIVE check_window_function(_, _, _)

\* TypeChecker::check_function
check_function(func, scope, ord) ==
    LET sig == resolve_function(func.name)
        args == [i \in 1..Len(func.args) |-> check_expr(func.args[i], scope, ord)]
    IN  IF sig = <<>> THEN TErr(AErr("FunctionNotFound", to_uppercase(func.name), <<>>))
        ELSE IF ~accepts_arg_count(sig[1], Len(func.args))
        THEN TErr(AErr("WrongArgumentCount", to_uppercase(func.name), <<>>))
        ELSE IF args # <<>> /\ ~FirstFailure(args).ok THEN FirstFailure(args)
        ELSE TOk(TypedExpr(sig[1].return_type, TRUE,
                           sig[1].is_aggregate, sig[1].is_window))

\* TypeChecker::check_aggregate
check_aggregate(agg, scope, ord) ==
    LET sig == resolve_function(agg.name)
        args == [i \in 1..Len(agg.args) |-> check_expr(agg.args[i], scope, ord)]
    IN  IF sig = <<>> THEN TErr(AErr("FunctionNotFound", to_uppercase(agg.name), <<>>))
        ELSE IF args # <<>> /\ ~FirstFailure(args).ok THEN FirstFailure(args)
        ELSE TOk(TypedExpr(sig[1].return_type, TRUE, TRUE, FALSE))

\* TypeChecker::check_window_function
check_window_function(wf, scope, ord) ==
    LET sig == resolve_function(wf.name)
        args == [i \in 1..Len(wf.args) |-> check_expr(wf.args[i], scope, ord)]
    IN  IF sig = <<>> THEN TErr(AErr("FunctionNotFound", to_uppercase(wf.name), <<>>))
        ELSE IF args # <<>> /\ ~FirstFailure(args).ok THEN FirstFailure(args)
        ELSE TOk(TypedExpr(sig[1].return_type, TRUE, FALSE, TRUE))

\* TypeChecker::check_expr, on the expression kinds above.
check_expr(expr, scope, ord) ==
    CASE expr.kind = "Null" -> TOk(nullable(T("Unknown")))
      [] expr.kind = "Boolean" -> TOk(non_null(T("Bool")))
      [] expr.kind = "Integer" -> TOk(non_null(T("Int64")))
      [] expr.kind = "String" -> TOk(non_null(T("Varchar")))
      [] expr.kind \in {"Identifier", "CompoundIdentifier"} ->
            check_column(
                IF expr.kind = "Identifier" THEN expr.name
                ELSE expr.parts[Len(expr.parts)],
                IF expr.kind = "Identifier" \/ Len(expr.parts) = 1 THEN <<>>
                ELSE <<expr.parts[Len(expr.parts) - 1]>>,
                scope, ord)
      [] expr.kind = "BinaryOp" ->
            LET l == check_expr(expr.args[1], scope, ord)
                r == check_expr(expr.args[2], scope, ord)
            IN  IF ~l.ok THEN l
                ELSE IF ~r.ok THEN r
                ELSE TOk(TypedExpr(
                        binary_result_type(expr.op, l.te.data_type, r.te.data_type),
                        l.te.nullable \/ r.te.nullable,
                        l.te.contains_aggregate \/ r.te.contains_aggregate,
                        l.te.contains_window \/ r.te.contains_window))
      [] expr.kind = "UnaryOp" ->
            LET t == check_expr(expr.args[1], scope, ord)
            IN  IF ~t.ok THEN t
                ELSE TOk(TypedExpr(
                        CASE expr.op = "Not" -> T("Bool")
                          [] expr.op = "BitwiseNot" -> T("Int64")
                          [] OTHER -> t.te.data_type,
                        t.te.nullable, t.te.contains_aggregate, t.te.contains_window))
      [] expr.kind \in {"Between", "In", "Like"} ->
            LET rs == [i \in 1..Len(expr.args) |-> check_expr(expr.args[i], scope, ord)]
                f == FirstFailure(rs)
            IN  IF ~f.ok THEN f ELSE TOk(non_null(T("Bool")))
      [] expr.kind = "IsExpr" -> TOk(non_null(T("Bool")))
      [] expr.kind = "Function" -> check_function(expr, scope, ord)
      [] expr.kind = "Aggregate" -> check_aggregate(expr, scope, ord)
      [] expr.kind = "WindowFunction" -> check_window_function(expr, scope, ord)
      [] expr.kind = "Cast" -> TOk(nullable(expr.dtype))
      [] expr.kind = "Extract" -> TOk(nullable(T("Int64")))
      [] expr.kind = "Parenthesized" -> check_expr(expr.args[1], scope, ord)

\* ------------------------------------------------------------ queries

\* AST nodes of queries.  An Option is <<>> (None) or <<x>> (Some(x)).
Query(with, body, order_by, limit) ==
    [with |-> with, body |-> body, order_by |-> order_by, limit |-> limit]
Cte(name, query) == [name |-> name, query |-> query]
BodySelect(select) == [kind |-> "Select", select |-> select]
Select(projection, from, where_clause, group_by, having) ==
    [projection |-> projection, from |-> from, where_clause |-> where_clause,
     group_by |-> group_by, having |-> having]
ItemExpr(expr, alias) == [kind |-> "Expr", expr |-> expr, alias |-> alias]
ItemWildcard == [kind |-> "Wildcard"]
ItemQualified(parts) == [kind |-> "QualifiedWildcard", qualifier |-> parts]
RefTable(parts, alias) == [kind |-> "Table", name |-> parts, alias |-> alias]
RefSubquery(query, alias) == [kind |-> "Subquery", query |-> query, alias |-> alias]

\* AnalyzedQuery
AnalyzedQuery(columns, agg, win) ==
    [columns |-> columns, has_aggregation |-> agg, has_window_functions |-> win]
NoQuery == AnalyzedQuery(<<>>, FALSE, FALSE)
OutputColumn(name, ty, nl) == [name |-> name, data_type |-> ty, nullable |-> nl]

\* The analyzer's state after a step and the step's Result.
AOk(sc, val) == [scopes |-> sc, ok |-> TRUE, val |-> val, err |-> NoErr]
AFail(sc, e) == [scopes |-> sc, ok |-> FALSE, val |-> NoQuery, err |-> e]

\* Analyzer::push_scope / pop_scope / current_scope / current_scope_mut
push_scope(sc) == Append(sc, NewScope)
pop_scope(sc) == IF sc = <<>> THEN sc ELSE SubSeq(sc, 1, Len(sc) - 1)
current_scope(sc) == sc[Len(sc)]
set_current_scope(sc, scope) == [sc EXCEPT ![Len(sc)] = scope]

\* Analyzer::lookup_cte: the innermost scope that holds the name; <<>> is None.
RECURSIVE lookup_cte(_, _)
lookup_cte(sc, name) ==
    IF sc = <<>> THEN <<>>
    ELSE IF has_cte(sc[Len(sc)], name)
         THEN <<sc[Len(sc)].ctes[to_lowercase(name)]>>
         ELSE lookup_cte(SubSeq(sc, 1, Len(sc) - 1), name)

\* Analyzer::analyze_expr
analyze_expr(sc, expr, ord) == check_expr(expr, current_scope(sc), ord)

\* Analyzer::analyze_expr_expect_bool
analyze_expr_expect_bool(sc, expr, ord) ==
    LET expect(t) ==
            IF ~t.ok THEN t
            ELSE IF t.te.data_type.tag \notin {"Bool", "Unknown", "Any"}
                 THEN TErr(AErr("TypeMismatch", "condition", <<>>))
                 ELSE t
    IN  expect(analyze_expr(sc, expr, ord))

\* Analyzer::analyze_expr_expect_int
analyze_expr_expect_int(sc, expr, ord) ==
    LET expect(t) ==
            IF ~t.ok THEN t
            ELSE IF ~is_integer(t.te.data_type)
                    /\ t.te.data_type.tag \notin {"Unknown", "Any"}
                 THEN TErr(AErr("TypeMismatch", "LIMIT/OFFSET", <<>>))
                 ELSE t
    IN  expect(analyze_expr(sc, expr, ord))

\* The first error of type-checking `exprs` in order in the current scope,
\* with `check` one of the analyze_expr operators; NoErr when all pass.
RECURSIVE FirstExprError(_, _, _, _)
FirstExprError(check(_, _, _), sc, exprs, ord) ==
    IF exprs = <<>> THEN NoErr
    ELSE LET rest(t) ==
                 IF ~t.ok THEN t.err ELSE FirstExprError(check, sc, Tail(exprs), ord)
         IN  rest(check(sc, Head(exprs), ord))

\* Analyzer::table_schema_to_columns
table_schema_to_columns(schema, alias) ==
    [i \in 1..Len(schema.columns) |->
        ScopeColumn(schema.columns[i].name, schema.columns[i].data_type,
                    schema.columns[i].nullable, alias, i - 1)]

\* The ScopeColumns of a query's output columns under an alias.
OutputToScopeColumns(columns, alias) ==
    [i \in 1..Len(columns) |->
        ScopeColumn(columns[i].name, columns[i].data_type, columns[i].nullable,
                    alias, i - 1)]

\* format!("_col{}", n)
ColName(n) ==
    CASE n = 0 -> "_col0" [] n = 1 -> "_col1" [] n = 2 -> "_col2" [] OTHER -> "_colN"

\* Analyzer::expr_to_name
expr_to_name(expr) ==
    CASE expr.kind = "Identifier" -> <<expr.name>>
      [] expr.kind = "CompoundIdentifier" -> <<expr.parts[Len(expr.parts)]>>
      [] OTHER -> <<>>

\* The output columns of the columns of one scope table.
TableOutput(table) ==
    [i \in 1..Len(table.columns) |->
        OutputColumn(table.columns[i].name, table.columns[i].data_type,
                     table.columns[i].nullable)]

RECURSIVE TablesOutput(_)
TablesOutput(tables) ==
    IF tables = <<>> THEN <<>> ELSE TableOutput(Head(tables)) \o TablesOutput(Tail(tables))

Last(s) == s[Len(s)]

\* One item of the projection loop of analyze_select: the columns it adds
\* and its aggregate/window flags, or its error.
select_item(sc, item, ncols, ord) ==
    CASE item.kind = "Expr" ->
            LET name == IF item.alias # <<>> THEN item.alias[1]
                        ELSE IF expr_to_name(item.expr) # <<>>
                             THEN expr_to_name(item.expr)[1]
                             ELSE ColName(ncols)
                column(t) ==
                    IF ~t.ok THEN [ok |-> FALSE, err |-> t.err, columns |-> <<>>,
                                   agg |-> FALSE, win |-> FALSE]
                    ELSE [ok |-> TRUE, err |-> NoErr,
                          columns |-> <<OutputColumn(name, t.te.data_type, t.te.nullable)>>,
                          agg |-> t.te.contains_aggregate, win |-> t.te.contains_window]
            IN  column(analyze_expr(sc, item.expr, ord))
      [] item.kind = "Wildcard" ->
            [ok |-> TRUE, err |-> NoErr,
             columns |-> TablesOutput(all_tables(current_scope(sc), ord)),
             agg |-> FALSE, win |-> FALSE]
      [] item.kind = "QualifiedWildcard" ->
            LET table_name == Last(item.qualifier)
                table == lookup_table(current_scope(sc), table_name)
            IN  IF table # <<>>
                THEN [ok |-> TRUE, err |-> NoErr, columns |-> TableOutput(table[1]),
                      agg |-> FALSE, win |-> FALSE]
                ELSE [ok |-> FALSE, err |-> AErr("TableNotFound", table_name, <<>>),
                      columns |-> <<>>, agg |-> FALSE, win |-> FALSE]
      [] item.kind = "WildcardExcept" ->
            LET table == IF item.qualifier # <<>>
                         THEN lookup_table(current_scope(sc), Last(item.qualifier[1]))
                         ELSE <<>>
                found == item.qualifier = <<>> \/ table # <<>>
                table_iter == IF item.qualifier # <<>> THEN table
                              ELSE all_tables(current_scope(sc), ord)
                except_names == {to_lowercase(item.except[i]) : i \in 1..Len(item.except)}
            IN  IF ~found
                THEN [ok |-> FALSE,
                      err |-> AErr("TableNotFound", Last(item.qualifier[1]), <<>>),
                      columns |-> <<>>, agg |-> FALSE, win |-> FALSE]
                ELSE [ok |-> TRUE, err |-> NoErr,
                      columns |-> SelectSeq(TablesOutput(table_iter),
                                    LAMBDA c: to_lowercase(c.name) \notin except_names),
                      agg |-> FALSE, win |-> FALSE]

\* The projection loop of analyze_select from item i on.
RECURSIVE projection_loop(_, _, _, _, _)
projection_loop(sc, items, i, acc, ord) ==
    IF i > Len(items) THEN acc
    ELSE LET rest(r) ==
                 IF ~r.ok THEN r
                 ELSE projection_loop(sc, items, i + 1,
                        [ok |-> TRUE, err |-> NoErr, columns |-> acc.columns \o r.columns,
                         agg |-> acc.agg \/ r.agg, win |-> acc.win \/ r.win], ord)
         IN  rest(select_item(sc, items[i], Len(acc.columns), ord))

\* The identifiers of the GROUP BY items that are plain identifiers.
GroupByNames(items) ==
    LET ids == SelectSeq(items, LAMBDA e: e.kind = "Identifier")
    IN  [i \in 1..Len(ids) |-> ids[i].name]

RECURSIVE analyze_query_internal(_, _, _)
RECURSIVE with_loop(_, _, _, _)
RECURSIVE analyze_query_body(_, _, _)
RECURSIVE analyze_select(_, _, _)
RECURSIVE analyze_table_ref(_, _, _)
RECURSIVE from_loop(_, _, _, _)

\* Analyzer::analyze_table_ref
analyze_table_ref(sc, tref, ord) ==
    CASE tref.kind = "Table" ->
            LET name_parts == tref.name
                cte_name == Last(name_parts)
                cte == lookup_cte(sc, cte_name)
                schema == resolve_table(name_parts)
            IN  IF cte # <<>>
                THEN LET table_alias == IF tref.alias # <<>> THEN tref.alias[1]
                                        ELSE cte_name
                         columns == [i \in 1..Len(cte[1].columns) |->
                                       ScopeColumn(cte[1].columns[i].name,
                                                   cte[1].columns[i].data_type,
                                                   cte[1].columns[i].nullable,
                                                   table_alias,
                                                   cte[1].columns[i].column_index)]
                     IN  AOk(set_current_scope(sc,
                               add_table(current_scope(sc),
                                         ScopeTable(table_alias, name_parts, columns))),
                             NoQuery)
                ELSE IF schema = <<>>
                THEN AFail(sc, AErr("TableNotFound", cte_name, <<>>))
                ELSE LET table_alias == IF tref.alias # <<>> THEN tref.alias[1]
                                        ELSE schema[1].name
                     IN  AOk(set_current_scope(sc,
                               add_table(current_scope(sc),
                                 ScopeTable(table_alias, name_parts,
                                   table_schema_to_columns(schema[1], table_alias)))),
                             NoQuery)
      [] tref.kind = "Subquery" ->
            LET alias_name == IF tref.alias # <<>> THEN tref.alias[1] ELSE "_subquery"
                add(r) ==
                    IF ~r.ok THEN r
                    ELSE AOk(set_current_scope(r.scopes,
                               add_table(current_scope(r.scopes),
                                 ScopeTable(alias_name, <<"_subquery">>,
                                   OutputToScopeColumns(r.val.columns, alias_name)))),
                             NoQuery)
            IN  add(analyze_query_internal(sc, tref.query, ord))
      [] tref.kind = "Join" ->
            LET condition(s2, c) == IF c # NoErr THEN AFail(s2, c) ELSE AOk(s2, NoQuery)
                right(r) ==
                    IF ~r.ok THEN r
                    ELSE condition(r.scopes,
                           IF tref.condition = <<>> THEN NoErr
                           ELSE analyze_expr_expect_bool(r.scopes, tref.condition[1],
                                                         ord).err)
                left(l) ==
                    IF ~l.ok THEN l ELSE right(analyze_table_ref(l.scopes, tref.right, ord))
            IN  left(analyze_table_ref(sc, tref.left, ord))
      [] tref.kind = "Parenthesized" -> analyze_table_ref(sc, tref.inner, ord)

\* The FROM loop of analyze_select from table reference i on.
from_loop(sc, tables, i, ord) ==
    IF i > Len(tables) THEN AOk(sc, NoQuery)
    ELSE LET rest(r) == IF ~r.ok THEN r ELSE from_loop(r.scopes, tables, i + 1, ord)
         IN  rest(analyze_table_ref(sc, tables[i], ord))

\* Analyzer::analyze_select.  Every `?` returns with the scopes as they are
\* at that point; pop_scope runs only on the path that reaches the end.
analyze_select(sc, select, ord) ==
    LET having(s2, p, h) ==
            IF h # NoErr THEN AFail(s2, h)
            ELSE AOk(pop_scope(s2), AnalyzedQuery(p.columns, p.agg, p.win))
        projection(s2, p) ==
            IF ~p.ok THEN AFail(s2, p.err)
            ELSE having(s2, p,
                   IF select.having = <<>> THEN NoErr
                   ELSE IF select.group_by = <<>> /\ ~p.agg
                        THEN AErr("HavingWithoutGroupBy", "", <<>>)
                        ELSE analyze_expr_expect_bool(s2, select.having[1], ord).err)
        where(s2, w) ==
            IF w # NoErr THEN AFail(s2, w)
            ELSE projection(s2,
                   projection_loop(s2, select.projection, 1,
                     [ok |-> TRUE, err |-> NoErr, columns |-> <<>>,
                      agg |-> FALSE, win |-> FALSE], ord))
        group_by(s2) ==
            where(s2, IF select.where_clause = <<>> THEN NoErr
                      ELSE analyze_expr_expect_bool(s2, select.where_clause[1], ord).err)
        from(f) ==
            IF ~f.ok THEN f
            ELSE group_by(set_current_scope(f.scopes,
                   [current_scope(f.scopes) EXCEPT
                       !.has_group_by = select.group_by # <<>>,
                       !.group_by_columns =
                           IF select.group_by = <<>> THEN @
                           ELSE @ \o GroupByNames(select.group_by[1])]))
    IN  from(from_loop(push_scope(sc), select.from, 1, ord))

\* Analyzer::analyze_query_body
analyze_query_body(sc, body, ord) ==
    CASE body.kind = "Select" -> analyze_select(sc, body.select, ord)
      [] body.kind = "SetOperation" ->
            LET right(l, r) ==
                    IF ~r.ok THEN r
                    ELSE IF Len(l.val.columns) # Len(r.val.columns)
                         THEN AFail(r.scopes, AErr("SetOperationColumnMismatch", "", <<>>))
                         ELSE AOk(r.scopes, l.val)
                left(l) ==
                    IF ~l.ok THEN l
                    ELSE right(l, analyze_query_body(l.scopes, body.right, ord))
            IN  left(analyze_query_body(sc, body.left, ord))
      [] body.kind = "Parenthesized" -> analyze_query_internal(sc, body.query, ord)

\* The loop of Analyzer::analyze_with_clause from CTE i on.
with_loop(sc, with, i, ord) ==
    IF i > Len(with.ctes) THEN AOk(sc, NoQuery)
    ELSE LET cte == with.ctes[i]
             rest(r) ==
                 IF ~r.ok THEN r
                 ELSE with_loop(
                        set_current_scope(r.scopes,
                          add_cte(current_scope(r.scopes),
                            [name |-> cte.name,
                             columns |-> OutputToScopeColumns(r.val.columns, cte.name),
                             is_recursive |-> with.recursive])),
                        with, i + 1, ord)
         IN  IF has_cte(current_scope(sc), cte.name)
             THEN AFail(sc, AErr("DuplicateCte", cte.name, <<>>))
             ELSE rest(analyze_query_internal(sc, cte.query, ord))

\* Analyzer::analyze_with_clause
analyze_with_clause(sc, with, ord) == with_loop(sc, with, 1, ord)

\* Analyzer::analyze_query_internal: WITH, then the body, then ORDER BY and
\* LIMIT/OFFSET in whatever scope is current once the body has returned.
analyze_query_internal(sc, query, ord) ==
    LET limit(b, l) == IF l # NoErr THEN AFail(b.scopes, l) ELSE AOk(b.scopes, b.val)
        order_by(b, o) ==
            IF o # NoErr THEN AFail(b.scopes, o)
            ELSE limit(b, FirstExprError(analyze_expr_expect_int, b.scopes, query.limit,
                                         ord))
        body(b) ==
            IF ~b.ok THEN b
            ELSE order_by(b, FirstExprError(analyze_expr, b.scopes, query.order_by, ord))
        with(w) ==
            IF ~w.ok THEN w ELSE body(analyze_query_body(w.scopes, query.body, ord))
    IN  with(IF query.with = <<>> THEN AOk(sc, NoQuery)
             ELSE analyze_with_clause(sc, query.with[1], ord))

\* --------------------------------------------------------- statements

\* Statement kinds.  INSERT and CREATE TABLE push no scope and are not
\* among the analysed statements; every other kind falls in "Other".
StmtQuery(query) == [kind |-> "Query", query |-> query]
StmtUpdate(table, assignments, where_clause) ==
    [kind |-> "Update", table |-> table, assignments |-> assignments,
     where_clause |-> where_clause]
StmtDelete(parts, alias, where_clause) ==
    [kind |-> "Delete", table |-> parts, alias |-> alias, where_clause |-> where_clause]
StmtMerge(target, source, on, clauses) ==
    [kind |-> "Merge", target |-> target, source |-> source, on |-> on,
     clauses |-> clauses]
\* An Assignment with an AssignmentTarget::Column target is the record
\* [target, value].  A MERGE WHEN clause is the record [condition, values]
\* of its optional condition and the expressions of its action (assignment
\* values or inserted values), analysed in that order.  CREATE VIEW is
\* [kind |-> "CreateView", query]; any other statement [kind |-> "Other"].

\* Analyzer::extract_table_info
extract_table_info(table_ref) ==
    IF table_ref.kind = "Table"
    THEN [ok |-> TRUE, name_parts |-> table_ref.name,
          table_name |-> Last(table_ref.name), alias |-> table_ref.alias]
    ELSE [ok |-> FALSE, name_parts |-> <<>>, table_name |-> "", alias |-> <<>>]

\* The assignment loop of analyze_update: the first error, or NoErr.
RECURSIVE assignments_loop(_, _, _, _, _)
assignments_loop(sc, schema, table_name, assignments, ord) ==
    IF assignments = <<>> THEN NoErr
    ELSE LET a == Head(assignments)
             rest(v) ==
                 IF ~v.ok THEN v.err
                 ELSE assignments_loop(sc, schema, table_name, Tail(assignments), ord)
         IN  IF get_column(schema, a.target) = <<>>
             THEN AErr("ColumnNotFound", a.target, <<table_name>>)
             ELSE rest(analyze_expr(sc, a.value, ord))

\* Analyzer::analyze_update
analyze_update(sc, update, ord) ==
    LET s1 == push_scope(sc)
        info == extract_table_info(update.table)
        schema == resolve_table(info.name_parts)
        alias == IF info.alias # <<>> THEN info.alias[1] ELSE info.table_name
        where(s2, w) == IF w # NoErr THEN AFail(s2, w) ELSE AOk(pop_scope(s2), NoQuery)
        assignments(s2, a) ==
            IF a # NoErr THEN AFail(s2, a)
            ELSE where(s2, IF update.where_clause = <<>> THEN NoErr
                           ELSE analyze_expr_expect_bool(s2, update.where_clause[1],
                                                         ord).err)
        table(s2) ==
            assignments(s2, assignments_loop(s2, schema[1], info.table_name,
                                             update.assignments, ord))
    IN  IF ~info.ok THEN AFail(s1, AErr("Other", "Expected table reference", <<>>))
        ELSE IF schema = <<>> THEN AFail(s1, AErr("TableNotFound", info.table_name, <<>>))
        ELSE table(set_current_scope(s1,
                     add_table(current_scope(s1),
                       ScopeTable(alias, info.name_parts,
                                  table_schema_to_columns(schema[1], alias)))))

\* Analyzer::analyze_delete
analyze_delete(sc, delete, ord) ==
    LET s1 == push_scope(sc)
        table_name == Last(delete.table)
        schema == resolve_table(delete.table)
        alias == IF delete.alias # <<>> THEN delete.alias[1] ELSE table_name
        where(s2, w) == IF w # NoErr THEN AFail(s2, w) ELSE AOk(pop_scope(s2), NoQuery)
        table(s2) ==
            where(s2, IF delete.where_clause = <<>> THEN NoErr
                      ELSE analyze_expr_expect_bool(s2, delete.where_clause[1], ord).err)
    IN  IF schema = <<>> THEN AFail(s1, AErr("TableNotFound", table_name, <<>>))
        ELSE table(set_current_scope(s1,
                     add_table(current_scope(s1),
                       ScopeTable(alias, delete.table,
                                  table_schema_to_columns(schema[1], alias)))))

\* The WHEN-clause loop of analyze_merge: the first error, or NoErr.
RECURSIVE clauses_loop(_, _, _)
clauses_loop(sc, clauses, ord) ==
    IF clauses = <<>> THEN NoErr
    ELSE LET c == Head(clauses)
             values(vals) ==
                 IF vals # NoErr THEN vals ELSE clauses_loop(sc, Tail(clauses), ord)
             condition(cond) ==
                 IF cond # NoErr THEN cond
                 ELSE values(FirstExprError(analyze_expr, sc, c.values, ord))
         IN  condition(IF c.condition = <<>> THEN NoErr
                       ELSE analyze_expr_expect_bool(sc, c.condition[1], ord).err)

\* Analyzer::analyze_merge
analyze_merge(sc, merge, ord) ==
    LET clauses(s2, c) == IF c # NoErr THEN AFail(s2, c) ELSE AOk(pop_scope(s2), NoQuery)
        on(s2, e) ==
            IF e # NoErr THEN AFail(s2, e)
            ELSE clauses(s2, clauses_loop(s2, merge.clauses, ord))
        source(s) ==
            IF ~s.ok THEN s
            ELSE on(s.scopes, analyze_expr_expect_bool(s.scopes, merge.on, ord).err)
        target(t) ==
            IF ~t.ok THEN t ELSE source(analyze_table_ref(t.scopes, merge.source, ord))
    IN  target(analyze_table_ref(push_scope(sc), merge.target, ord))

\* Analyzer::analyze_create_view
analyze_create_view(sc, create, ord) ==
    LET unit(r) == IF ~r.ok THEN r ELSE AOk(r.scopes, NoQuery)
    IN  unit(analyze_query_internal(sc, create.query, ord))

\* Analyzer::analyze_statement: Result<(), AnalyzerError>
analyze_statement(sc, stmt, ord) ==
    CASE stmt.kind = "Query" ->
            LET unit(r) == IF ~r.ok THEN r ELSE AOk(r.scopes, NoQuery)
            IN  unit(analyze_query_internal(sc, stmt.query, ord))
      [] stmt.kind = "Update" -> analyze_update(sc, stmt, ord)
      [] stmt.kind = "Delete" -> analyze_delete(sc, stmt, ord)
      [] stmt.kind = "Merge" -> analyze_merge(sc, stmt, ord)
      [] stmt.kind = "CreateView" -> analyze_create_view(sc, stmt, ord)
      [] OTHER -> AOk(sc, NoQuery)

\* ------------------------------------------------ analysed statements

Users == RefTable(<<"users">>, <<>>)
Orders == RefTable(<<"orders">>, <<>>)
\* SELECT <items> FROM <from>
SelectFrom(items, from) ==
    Query(<<>>, BodySelect(Select(items, from, <<>>, <<>>, <<>>)), <<>>, <<>>)
\* SELECT <expr> FROM <from>
SelectExpr(expr, from) == SelectFrom(<<ItemExpr(expr, <<>>)>>, from)
\* SELECT <expr> FROM <from> ORDER BY <key>
SelectOrderBy(expr, from, key) ==
    Query(<<>>, BodySelect(Select(<<ItemExpr(expr, <<>>)>>, from, <<>>, <<>>, <<>>)),
          <<key>>, <<>>)
\* WITH <ctes> SELECT * FROM <name>
WithSelect(ctes, name) ==
    Query(<<[recursive |-> FALSE, ctes |-> ctes]>>,
          BodySelect(Select(<<ItemWildcard>>, <<RefTable(<<name>>, <<>>)>>,
                            <<>>, <<>>, <<>>)),
          <<>>, <<>>)
SelectOne == SelectExpr(EInt, <<>>)
\* WITH RECURSIVE <ctes> SELECT * FROM <name>
WithRecursiveSelect(ctes, name) ==
    Query(<<[recursive |-> TRUE, ctes |-> ctes]>>,
          BodySelect(Select(<<ItemWildcard>>, <<RefTable(<<name>>, <<>>)>>,
                            <<>>, <<>>, <<>>)),
          <<>>, <<>>)
\* SELECT * FROM a
SelectFromA == SelectFrom(<<ItemWildcard>>, <<RefTable(<<"a">>, <<>>)>>)
\* SELECT 1 UNION ALL SELECT * FROM a
OneUnionAllA ==
    Query(<<>>, [kind |-> "SetOperation", left |-> SelectOne.body, right |-> SelectFromA.body],
          <<>>, <<>>)

\* The queries the analyzer is given.
Queries ==
    << \* name resolution of a bare column: one, none, several matches
       SelectExpr(EId("id"), <<Users>>),
       SelectExpr(EId("ID"), <<Users>>),
       SelectExpr(EId("nosuch"), <<Users>>),
       SelectExpr(EId("id"), <<Users, Orders>>),
       SelectExpr(EId("name"), <<Users, Orders>>),
       \* a bare column inside another expression
       SelectExpr(EParen(EId("nosuch")), <<Users>>),
       SelectExpr(EUnary("Minus", EId("nosuch")), <<Users>>),
       SelectExpr(EBin("Plus", EId("id"), EInt), <<Users, Orders>>),
       SelectExpr(Expr("Between", "", <<>>, "", <<EId("nosuch"), EInt, EInt>>, T("Unknown")),
                  <<Users>>),
       SelectExpr(Expr("IsExpr", "", <<>>, "", <<EId("nosuch")>>, T("Unknown")), <<Users>>),
       SelectExpr(ECast(EId("nosuch"), T("Int64")), <<Users>>),
       SelectExpr(ECast(EId("id"), T("Varchar")), <<Users, Orders>>),
       SelectExpr(Expr("Extract", "", <<>>, "", <<EId("nosuch")>>, T("Unknown")), <<Users>>),
       SelectExpr(ECast(EId("name"), T("Int64")), <<Users>>),
       \* ORDER BY
       SelectOrderBy(EId("id"), <<Users>>, EId("id")),
       SelectOrderBy(EId("id"), <<Users>>, EInt),
       \* FROM
       SelectFrom(<<ItemWildcard>>, <<Users, Orders>>),
       SelectFrom(<<ItemWildcard>>, <<RefTable(<<"nonexistent">>, <<>>)>>),
       SelectFrom(<<ItemQualified(<<"u">>)>>, <<RefTable(<<"users">>, <<"u">>)>>),
       \* WITH
       WithSelect(<<Cte("a", SelectOne)>>, "a"),
       WithSelect(<<Cte("a", SelectOne), Cte("a", SelectOne)>>, "a"),
       WithSelect(<<Cte("a", SelectOne), Cte("b", SelectOne)>>, "b"),
       SelectFrom(<<ItemWildcard>>,
                  <<RefSubquery(WithSelect(<<Cte("a", SelectOne)>>, "a"), <<"x">>),
                    RefSubquery(WithSelect(<<Cte("a", SelectOne)>>, "a"), <<"y">>)>>),
       SelectFrom(<<ItemWildcard>>,
                  <<RefSubquery(SelectExpr(EId("id"), <<Users>>), <<"x">>),
                    RefSubquery(SelectExpr(EId("id"), <<Orders>>), <<"y">>)>>),
       \* a CTE that names itself in its body, with and without RECURSIVE
       WithSelect(<<Cte("a", SelectFromA)>>, "a"),
       WithSelect(<<Cte("a", OneUnionAllA)>>, "a"),
       WithRecursiveSelect(<<Cte("a", SelectFromA)>>, "a"),
       WithRecursiveSelect(<<Cte("a", OneUnionAllA)>>, "a"),
       \* two FROM items with the same effective alias
       SelectFrom(<<ItemWildcard>>, <<Users, Users>>),
       SelectFrom(<<ItemWildcard>>,
                  <<RefTable(<<"users">>, <<"u">>), RefTable(<<"orders">>, <<"U">>)>>)
    >>

IdEqOne == EBin("Eq", EId("id"), EInt)

\* The other statements the analyzer is given.
OtherStatements ==
    << StmtUpdate(Users, <<[target |-> "name", value |-> EStr]>>, <<IdEqOne>>),
       StmtUpdate(Users, <<[target |-> "nosuch", value |-> EInt]>>, <<>>),
       StmtUpdate(Users, <<[target |-> "name", value |-> EId("nosuch")]>>, <<>>),
       StmtUpdate(RefTable(<<"nonexistent">>, <<>>), <<[target |-> "name", value |-> EStr]>>, <<>>),
       StmtDelete(<<"users">>, <<>>, <<IdEqOne>>),
       StmtDelete(<<"users">>, <<>>, <<EBin("Eq", EId("nosuch"), EInt)>>),
       StmtDelete(<<"nonexistent">>, <<>>, <<>>),
       StmtMerge(Users, Orders,
                 EBin("Eq", ECompound(<<"users", "id">>), ECompound(<<"orders", "user_id">>)),
                 <<[condition |-> <<>>, values |-> <<EStr>>]>>),
       StmtMerge(Users, Orders, EBin("Eq", EId("id"), EInt), <<>>),
       [kind |-> "CreateView", query |-> SelectExpr(EId("nosuch"), <<Users>>)],
       [kind |-> "Other"] >>

Statements == [i \in 1..Len(Queries) |-> StmtQuery(Queries[i])] \o OtherStatements

\* ------------------------------------------------ analyzer state machine

\* Result<(), Error> / Result<AnalyzedQuery, Error> of a top-level call.
\* Error::analyzer(e.to_string()): the message is the error kind's text
\* with the names the kind carries.
CallResult(r) ==
    [ok |-> r.ok, val |-> r.val,
     err |-> IF r.ok THEN <<>> ELSE <<r.err.kind, r.err.name, r.err.tables>>]

NoCall == [op |-> "none", input |-> 0, ord |-> KeyOrder,
           res |-> [ok |-> TRUE, val |-> NoQuery, err |-> <<>>]]

\* Analyzer::with_catalog
InitAnalyzer ==
    /\ scopes = <<NewScope>>
    /\ errors = <<>>
    /\ aCalls = 0
    /\ aLast = NoCall

\* A lexer that is given no source and no call.
IdleLexer ==
    /\ input = <<>> /\ lpos = 0 /\ lstart = 0 /\ peeked = <<>>
    /\ checks = FALSE /\ lOut = <<>> /\ lPanicked = FALSE
    /\ lLast = [op |-> "none", n |-> 0,
                 res |-> [ok |-> TRUE, kind |-> "none", value |-> <<>>, s |-> 0, e |-> 0]]

\* No call made on the parser.
NoParse == [op |-> "none", from |-> 0,
            res |-> [ok |-> TRUE, val |-> <<>>, pos |-> 0, err |-> "none"]]

\* A parser that is given no source and no call.
IdleParser == pTokens = <<>> /\ pPos = 0 /\ pCalls = 0 /\ pLast = NoParse

\* No expression was handed to a TypeChecker, no pair of types compared.
NoCheck == [op |-> "none", res |-> TOk(non_null(T("Unknown")))]
IdleTypeChecker == tcExpr = EInt /\ tcLast = NoCheck
NoTypes == [op |-> "none", supertype |-> <<>>, coerces |-> FALSE]
IdleSqlType == stA = T("Unknown") /\ stB = T("Unknown") /\ stLast = NoTypes

\* No catalog is being built.
NoLookup == [op |-> "none", name |-> <<>>, res |-> <<>>]
IdleCatalog ==
    /\ schemas = EmptyMap /\ functions = EmptyMap /\ include_builtins = FALSE
    /\ built = FALSE /\ cAdded = <<>> /\ cCalls = 0 /\ cLast = NoLookup

Init ==
    InitAnalyzer /\ IdleLexer /\ IdleParser /\ IdleTypeChecker /\ IdleSqlType
        /\ IdleCatalog

\* Analyzer::analyze on Statements[i], with hash order ord
Analyze(i, ord) ==
    /\ aCalls < MaxCalls
    /\ LET returns(r) ==
               /\ scopes' = r.scopes
               /\ aLast' = [op |-> "analyze", input |-> i, ord |-> ord,
                            res |-> CallResult([r EXCEPT !.val = NoQuery])]
       IN  returns(analyze_statement(scopes, Statements[i], ord))
    /\ errors' = <<>>
    /\ aCalls' = aCalls + 1
    /\ UNCHANGED <<lVars, pVars, tVars, sVars, cVars>>

\* Analyzer::analyze_query_result on Queries[i], with hash order ord
AnalyzeQueryResult(i, ord) ==
    /\ aCalls < MaxCalls
    /\ LET returns(r) ==
               /\ scopes' = r.scopes
               /\ aLast' = [op |-> "analyze_query_result", input |-> i, ord |-> ord,
                            res |-> CallResult(r)]
       IN  returns(analyze_query_internal(scopes, Queries[i], ord))
    /\ errors' = <<>>
    /\ aCalls' = aCalls + 1
    /\ UNCHANGED <<lVars, pVars, tVars, sVars, cVars>>

Next ==
    \/ \E i \in 1..Len(Statements), ord \in HashOrders : Analyze(i, ord)
    \/ \E i \in 1..Len(Queries), ord \in HashOrders : AnalyzeQueryResult(i, ord)

Spec == Init /\ [][Next]_vars

\* ------------------------------------------------- analyzer properties

\* What a freshly constructed analyzer returns for the call `call`.
FreshResult(call) ==
    IF call.op = "analyze"
    THEN CallResult([analyze_statement(<<NewScope>>, Statements[call.input], call.ord)
                        EXCEPT !.val = NoQuery])
    ELSE CallResult(analyze_query_internal(<<NewScope>>, Queries[call.input], call.ord))

\* C1: analyze and analyze_query_result are stateless across calls: after
\* any call the scope stack and the error list are as they were at
\* construction, and a call returns what a fresh analyzer returns for the
\* same statement.
C1_Stateless ==
    aLast.op # "none" =>
        /\ scopes = <<NewScope>>
        /\ errors = <<>>
        /\ aLast.res = FreshResult(aLast)

\* C2: every scope pushed during the analysis of a statement is popped
\* before the analysis returns, with a result or with an error: no call
\* changes the depth of the scope stack.
C2_ScopesBalanced == [][Len(scopes') = Len(scopes)]_vars

\* The names of the bare column references of an expression, at any depth.
RECURSIVE BareColumns(_)
BareColumns(expr) ==
    IF expr.kind = "Identifier" THEN {expr.name}
    ELSE UNION {BareColumns(expr.args[i]) : i \in 1..Len(expr.args)}

\* The FROM entries of `from` (catalog tables) that have a column `name`.
MatchingTables(name, from) ==
    {i \in 1..Len(from) : get_column(resolve_table(from[i].name)[1], name) # <<>>}

\* A query SELECT <expr> FROM <catalog tables> with one bare column in expr.
IsPlainSelect(q) ==
    /\ q.with = <<>> /\ q.order_by = <<>> /\ q.body.kind = "Select"
    /\ Len(q.body.select.projection) = 1
    /\ q.body.select.projection[1].kind = "Expr"
    /\ Cardinality(BareColumns(q.body.select.projection[1].expr)) = 1
    /\ q.body.select.from # <<>>
    /\ \A i \in 1..Len(q.body.select.from) :
          /\ q.body.select.from[i].kind = "Table"
          /\ resolve_table(q.body.select.from[i].name) # <<>>

\* C7: a bare column reference at any depth of an expression is resolved
\* against the tables of the SELECT: no match is ColumnNotFound, several
\* matches are AmbiguousColumn, one match type-checks (and a projected
\* column takes the matched column's type and nullability).
C7_BareColumnsResolved ==
    (aLast.op = "analyze_query_result" /\ IsPlainSelect(Queries[aLast.input])) =>
        LET sel == Queries[aLast.input].body.select
            expr == sel.projection[1].expr
            c == CHOOSE n \in BareColumns(expr) : TRUE
            hits == MatchingTables(c, sel.from)
        IN  CASE hits = {} ->
                    ~aLast.res.ok /\ aLast.res.err[1] = "ColumnNotFound"
                                  /\ aLast.res.err[2] = c
              [] Cardinality(hits) > 1 ->
                    ~aLast.res.ok /\ aLast.res.err[1] = "AmbiguousColumn"
              [] OTHER ->
                    /\ aLast.res.ok
                    /\ expr.kind = "Identifier" =>
                        LET col == get_column(
                                     resolve_table(sel.from[CHOOSE i \in hits : TRUE].name)[1],
                                     c)[1]
                        IN  /\ aLast.res.val.columns[1].data_type = col.data_type
                            /\ aLast.res.val.columns[1].nullable = col.nullable

\* A query SELECT <column> FROM <catalog tables> ORDER BY <column> whose
\* ORDER BY key is a bare column of exactly one FROM table.
IsOrderByColumn(q) ==
    /\ Len(q.order_by) = 1 /\ q.order_by[1].kind = "Identifier"
    /\ IsPlainSelect([q EXCEPT !.order_by = <<>>])
    /\ Cardinality(MatchingTables(q.order_by[1].name, q.body.select.from)) = 1
    /\ Cardinality(MatchingTables(
          CHOOSE n \in BareColumns(q.body.select.projection[1].expr) : TRUE,
          q.body.select.from)) = 1

\* C9: ORDER BY is type-checked while the SELECT's scope is still on the
\* stack: an ORDER BY key that names a column of the FROM table resolves.
C9_OrderBySeesFrom ==
    (aLast.op # "none" /\ aLast.input <= Len(Queries)
        /\ IsOrderByColumn(Queries[aLast.input])) => aLast.res.ok

\* Some WITH clause of the query, at any depth, names two CTEs alike.
RECURSIVE HasDuplicateCte(_)
RECURSIVE RefHasDuplicateCte(_)
HasDuplicateCte(q) ==
    \/ /\ q.with # <<>>
       /\ \/ \E i, j \in 1..Len(q.with[1].ctes) :
                /\ i < j
                /\ to_lowercase(q.with[1].ctes[i].name) = to_lowercase(q.with[1].ctes[j].name)
          \/ \E i \in 1..Len(q.with[1].ctes) : HasDuplicateCte(q.with[1].ctes[i].query)
    \/ /\ q.body.kind = "Select"
       /\ \E i \in 1..Len(q.body.select.from) : RefHasDuplicateCte(q.body.select.from[i])
RefHasDuplicateCte(tref) ==
    tref.kind = "Subquery" /\ HasDuplicateCte(tref.query)

\* C10: DuplicateCte is reported exactly when one WITH clause names two
\* CTEs alike; the WITH clauses of sibling subqueries never collide.
C10_DuplicateCteExact ==
    (aLast.op = "analyze_query_result") =>
        ((~aLast.res.ok /\ aLast.res.err[1] = "DuplicateCte")
            <=> HasDuplicateCte(Queries[aLast.input]))

\* The query body reads FROM the table `name`.
RECURSIVE BodyReads(_, _)
BodyReads(body, name) ==
    CASE body.kind = "Select" ->
            \E i \in 1..Len(body.select.from) :
                body.select.from[i].kind = "Table" /\ body.select.from[i].name = <<name>>
      [] body.kind = "SetOperation" ->
            BodyReads(body.left, name) \/ BodyReads(body.right, name)
      [] OTHER -> FALSE

\* WITH [RECURSIVE] c AS (... FROM c ...) ..., where no table of the
\* catalog is named c.
IsSelfReferencingCte(q) ==
    /\ q.with # <<>> /\ Len(q.with[1].ctes) = 1
    /\ resolve_table(<<q.with[1].ctes[1].name>>) = <<>>
    /\ BodyReads(q.with[1].ctes[1].query.body, q.with[1].ctes[1].name)

\* C19: a CTE's name is visible inside its own body iff the WITH clause
\* is RECURSIVE: the self-reference of a CTE named like no table fails
\* with TableNotFound exactly when the WITH clause is not RECURSIVE.
C19_SelfReferenceIffRecursive ==
    (aLast.op = "analyze_query_result" /\ IsSelfReferencingCte(Queries[aLast.input])) =>
        ((~aLast.res.ok /\ aLast.res.err[1] = "TableNotFound"
              /\ aLast.res.err[2] = Queries[aLast.input].with[1].ctes[1].name)
            <=> ~Queries[aLast.input].with[1].recursive)

\* SELECT * FROM t1, t2, ...: two or more tables of the catalog.
IsWildcardOverTables(q) ==
    /\ q.with = <<>> /\ q.body.kind = "Select"
    /\ q.body.select.projection = <<ItemWildcard>>
    /\ Len(q.body.select.from) >= 2
    /\ \A i \in 1..Len(q.body.select.from) :
          /\ q.body.select.from[i].kind = "Table"
          /\ resolve_table(q.body.select.from[i].name) # <<>>

\* The columns of the FROM tables, table by table in FROM order, each
\* table's columns in schema order.
RECURSIVE FromOrderColumns(_)
FromOrderColumns(from) ==
    IF from = <<>> THEN <<>>
    ELSE LET columns == resolve_table(Head(from).name)[1].columns
         IN  [i \in 1..Len(columns) |->
                OutputColumn(columns[i].name, columns[i].data_type, columns[i].nullable)]
             \o FromOrderColumns(Tail(from))

\* C24: SELECT * over two or more FROM tables yields its columns in FROM
\* order, the same sequence on every analysis.
C24_WildcardInFromOrder ==
    (aLast.op = "analyze_query_result" /\ aLast.res.ok
        /\ IsWildcardOverTables(Queries[aLast.input])) =>
        aLast.res.val.columns = FromOrderColumns(Queries[aLast.input].body.select.from)

\* The alias a FROM table goes by: its alias, else the table's name.
EffectiveAlias(tref) == IF tref.alias # <<>> THEN tref.alias[1] ELSE Last(tref.name)

\* Two of the FROM tables have the same effective alias, whatever the case.
HasEqualAliases(from) ==
    \E i, j \in 1..Len(from) :
        i < j /\ to_lowercase(EffectiveAlias(from[i])) = to_lowercase(EffectiveAlias(from[j]))

\* C28: FROM items of equal effective alias never silently replace one
\* another: the analysis of SELECT * over them fails, or every table
\* reference is in scope and contributes its columns to the output.
C28_EqualAliasesKept ==
    (aLast.op = "analyze_query_result" /\ aLast.res.ok
        /\ IsWildcardOverTables(Queries[aLast.input])
        /\ HasEqualAliases(Queries[aLast.input].body.select.from)) =>
        Len(aLast.res.val.columns)
            = Len(FromOrderColumns(Queries[aLast.input].body.select.from))

\* -------------------------------------------------------------- lexer

\* A source is a sequence of byte slots.  A character of one byte fills one
\* slot; the two-byte character EAcute fills its slot and a Cont slot, so
\* that positions are byte offsets as in the code.  The characters are
\* space, newline, a b r, 1 4, ' \ ! = ; / * - # . and EAcute.
EAcute == "e-acute"
Cont == "cont"
\* char::len_utf8
len_utf8(c) == IF c = EAcute THEN 2 ELSE 1

is_whitespace(c) == c \in {" ", "\n"}
is_ascii_digit(c) == c \in {"1", "4"}
is_octal_digit(c) == c \in {"1", "4"}
is_ascii_alphabetic(c) == c \in {"a", "b", "r"}
DigitValue(c) == IF c = "1" THEN 1 ELSE 4
\* The code point of a character (`c as u32`; `c as u8` is the same value
\* for every character of the sources).
Code(c) ==
    CASE c = " " -> 32 [] c = "\n" -> 10 [] c = "a" -> 97 [] c = "b" -> 98
      [] c = "r" -> 114 [] c = "1" -> 49 [] c = "4" -> 52 [] c = "'" -> 39
      [] c = "\\" -> 92 [] c = "!" -> 33 [] c = "=" -> 61 [] c = ";" -> 59
      [] c = "/" -> 47 [] c = "*" -> 42 [] c = "-" -> 45 [] c = "#" -> 35
      [] c = "." -> 46 [] c = EAcute -> 233

\* Lexer::is_at_end / peek_char / check / check_next / matches
is_at_end(src, pos) == pos >= Len(src)
peek_char(src, pos) == IF pos < Len(src) THEN <<src[pos + 1]>> ELSE <<>>
check(src, pos, expected) == peek_char(src, pos) = <<expected>>
check_next_char(src, pos, set) ==
    /\ pos < Len(src)
    /\ pos + len_utf8(src[pos + 1]) < Len(src)
    /\ src[pos + len_utf8(src[pos + 1]) + 1] \in set
check_next(src, pos, expected) == check_next_char(src, pos, {expected})
\* Lexer::advance: the position after the character at pos
advance(src, pos) == pos + len_utf8(src[pos + 1])
\* Lexer::matches: the position after the call; it moved iff it matched
matches(src, pos, expected) ==
    IF check(src, pos, expected) THEN advance(src, pos) ELSE pos
\* The position after `self.matches(q) && self.matches(q)`, and its value.
matches_twice(src, pos, q) ==
    LET p1 == matches(src, pos, q)
        p2 == IF p1 = pos THEN pos ELSE matches(src, p1, q)
    IN  [pos |-> p2, both |-> p1 # pos /\ p2 # p1]

\* The outcome of a scanning step: a value (token kind and value, or a
\* position only), an error with its span, or a panic.
LTok(kind, value, s, e, pos) ==
    [ok |-> TRUE, kind |-> kind, value |-> value, s |-> s, e |-> e, pos |-> pos,
     panic |-> FALSE]
LErr(kind, s, e, pos) ==
    [ok |-> FALSE, kind |-> kind, value |-> <<>>, s |-> s, e |-> e, pos |-> pos,
     panic |-> FALSE]
LPanic(pos) ==
    [ok |-> FALSE, kind |-> "panic", value |-> <<>>, s |-> 0, e |-> 0, pos |-> pos,
     panic |-> TRUE]
LPos(pos) == LTok("", <<>>, 0, 0, pos)
NoTok == LPos(0)

\* Lexer::skip_whitespace
RECURSIVE skip_whitespace(_, _)
skip_whitespace(src, pos) ==
    IF pos < Len(src) /\ is_whitespace(src[pos + 1])
    THEN skip_whitespace(src, advance(src, pos)) ELSE pos

\* Lexer::skip_line_comment
RECURSIVE skip_line_comment(_, _)
skip_line_comment(src, pos) ==
    IF pos < Len(src) /\ src[pos + 1] # "\n"
    THEN skip_line_comment(src, advance(src, pos)) ELSE pos

\* The loop of skip_block_comment without nesting: the first `*/` ends
\* the comment.
RECURSIVE block_comment_loop_flat(_, _, _, _)
block_comment_loop_flat(src, start, pos, depth) ==
    IF is_at_end(src, pos) THEN LErr("UnterminatedBlockComment", start, pos, pos)
    ELSE IF check(src, pos, "*") /\ check_next(src, pos, "/")
         THEN LPos(advance(src, advance(src, pos)))
    ELSE block_comment_loop_flat(src, start, advance(src, pos), depth)

\* The loop of skip_block_comment at nesting depth `depth`.
RECURSIVE block_comment_loop(_, _, _, _)
block_comment_loop(src, start, pos, depth) ==
    IF depth = 0 THEN LPos(pos)
    ELSE IF is_at_end(src, pos) THEN LErr("UnterminatedBlockComment", start, pos, pos)
    ELSE IF check(src, pos, "*") /\ check_next(src, pos, "/")
         THEN block_comment_loop(src, start, advance(src, advance(src, pos)), depth - 1)
    ELSE IF check(src, pos, "/") /\ check_next(src, pos, "*")
         THEN block_comment_loop(src, start, advance(src, advance(src, pos)), depth + 1)
    ELSE block_comment_loop(src, start, advance(src, pos), depth)

\* Lexer::skip_block_comment
skip_block_comment(src, pos) ==
    block_comment_loop(src, pos, advance(src, advance(src, pos)), 1)

\* Lexer::skip_whitespace_and_comments
RECURSIVE skip_whitespace_and_comments(_, _)
skip_whitespace_and_comments(src, pos) ==
    LET block(r) == IF ~r.ok THEN r ELSE skip_whitespace_and_comments(src, r.pos)
        comments(p) ==
            IF is_at_end(src, p) THEN LPos(p)
            ELSE IF check(src, p, "/") /\ check_next(src, p, "*")
                 THEN block(skip_block_comment(src, p))
            ELSE IF (check(src, p, "-") /\ check_next(src, p, "-")) \/ check(src, p, "#")
                 THEN skip_whitespace_and_comments(src, skip_line_comment(src, p))
            ELSE LPos(p)
    IN  comments(skip_whitespace(src, pos))

\* The two further digits of an octal escape whose first digit gave
\* `value`, accumulated in a u32 or in a u8 (`ty`).  Three octal digits
\* stay below 2^32.  A u8 step above 255 panics when the build checks
\* overflow and wraps when it does not.
RECURSIVE octal_loop(_, _, _, _, _, _)
octal_loop(src, pos, value, left, ty, overflow_checks) ==
    IF left = 0 THEN LTok("", <<value>>, 0, 0, pos)
    ELSE IF pos < Len(src) /\ is_octal_digit(src[pos + 1])
         THEN LET digit(v, p) ==
                      IF ty = "u8" /\ v > 255 /\ overflow_checks
                      THEN LPanic(p)
                      ELSE octal_loop(src, p, IF ty = "u8" THEN v % 256 ELSE v,
                                      left - 1, ty, overflow_checks)
              IN  digit(value * 8 + DigitValue(src[pos + 1]), advance(src, pos))
    ELSE LErr("InvalidEscapeSequence", pos - 2, pos, pos)

\* The arms of scan_escape_sequence and scan_bytes_escape_sequence on the
\* characters of the sources; they differ in the type of the octal value.
escape_sequence(src, pos, ty, overflow_checks) ==
    IF is_at_end(src, pos) THEN LErr("InvalidEscapeSequence", pos - 1, pos, pos)
    ELSE LET escape(c, p) ==
                 CASE c = "a" -> LTok("", <<7>>, 0, 0, p)
                   [] c = "b" -> LTok("", <<8>>, 0, 0, p)
                   [] c = "r" -> LTok("", <<13>>, 0, 0, p)
                   [] c = "\\" -> LTok("", <<92>>, 0, 0, p)
                   [] c = "'" -> LTok("", <<39>>, 0, 0, p)
                   [] is_octal_digit(c) ->
                        octal_loop(src, p, DigitValue(c), 2, ty, overflow_checks)
                   [] OTHER -> LErr("InvalidEscapeSequence", p - 2, p, p)
         IN  escape(src[pos + 1], advance(src, pos))

\* Lexer::scan_escape_sequence: the octal value is a u32
scan_escape_sequence(src, pos) == escape_sequence(src, pos, "u32", FALSE)

\* Lexer::scan_bytes_escape_sequence: the octal value is a u8
scan_bytes_escape_sequence(src, pos, overflow_checks) ==
    escape_sequence(src, pos, "u8", overflow_checks)

\* The code points of the text src[from..to) (&self.input[from..to]).
Text(src, from, to) ==
    LET slots == SelectSeq(SubSeq(src, from + 1, to), LAMBDA c: c # Cont)
    IN  [i \in 1..Len(slots) |-> Code(slots[i])]

\* Lexer::make_token failing at the end of input
make_token_eof_error(src, start, pos, kind, value) ==
    IF kind = "Eof" THEN LErr("UnexpectedEof", start, pos, pos)
    ELSE LTok(kind, value, start, pos, pos)

\* Lexer::make_token with Span::new(self.pos, self.start)
make_token_reversed(src, start, pos, kind, value) == LTok(kind, value, pos, start, pos)

\* Lexer::make_token
make_token(src, start, pos, kind, value) == LTok(kind, value, start, pos, pos)

\* The loop of scan_string, scan_raw_string and scan_bytes_string:
\* `escapes` is "string", "bytes" or "none", `newline_ends` tells whether a
\* newline outside a triple-quoted literal is an error.
RECURSIVE string_loop(_, _, _, _, _, _, _, _, _, _)
string_loop(src, start, pos, quote, triple, escapes, newline_ends, kind, value, overflow_checks) ==
    IF is_at_end(src, pos) THEN LErr("UnterminatedString", start, pos, pos)
    ELSE LET next(ok, r, p, v) ==
                 IF ~ok THEN r
                 ELSE string_loop(src, start, p, quote, triple, escapes, newline_ends,
                                  kind, v, overflow_checks)
             closing(m) ==
                 next(~m.both, make_token(src, start, m.pos, kind, value), m.pos,
                      Append(value, Code(quote)))
             escaped(esc) == next(esc.ok, esc, esc.pos, value \o esc.value)
             char(c, p) ==
                 IF c = quote
                 THEN IF triple THEN closing(matches_twice(src, p, quote))
                      ELSE make_token(src, start, p, kind, value)
                 ELSE IF c = "\\" /\ escapes # "none" /\ ~is_at_end(src, p)
                 THEN escaped(IF escapes = "string" THEN scan_escape_sequence(src, p)
                              ELSE scan_bytes_escape_sequence(src, p, overflow_checks))
                 ELSE IF c = "\n" /\ newline_ends /\ ~triple
                 THEN LErr("UnterminatedString", start, p, p)
                 ELSE next(TRUE, NoTok, p, Append(value, Code(c)))
         IN  char(src[pos + 1], advance(src, pos))

\* Lexer::scan_string, entered after the opening quote
scan_string(src, start, pos, quote) ==
    LET body(t) ==
            string_loop(src, start, t.pos, quote, t.both, "string", TRUE, "String", <<>>, FALSE)
    IN  body(matches_twice(src, pos, quote))

\* Lexer::scan_raw_string
scan_raw_string(src, start, pos, quote) ==
    LET body(t) ==
            string_loop(src, start, t.pos, quote, t.both, "none", FALSE, "String", <<>>, FALSE)
    IN  body(matches_twice(src, pos, quote))

\* Lexer::scan_bytes_string
scan_bytes_string(src, start, pos, quote, raw, overflow_checks) ==
    LET body(t) ==
            string_loop(src, start, t.pos, quote, t.both, IF raw THEN "none" ELSE "bytes",
                        TRUE, "Bytes", <<>>, overflow_checks)
    IN  body(matches_twice(src, pos, quote))

\* The position after the characters of `set` that start at pos.
RECURSIVE skip_while(_, _, _)
skip_while(src, pos, set) ==
    IF pos < Len(src) /\ src[pos + 1] \in set
    THEN skip_while(src, advance(src, pos), set) ELSE pos

\* Lexer::scan_identifier_or_keyword, entered at the first character.  No
\* text over the letters a, b, r is a keyword.
scan_identifier_or_keyword(src, start, overflow_checks) ==
    LET word(end) == make_token(src, start, end, "Identifier", Text(src, start, end))
        bytes(p, raw) == scan_bytes_string(src, start, p, "'", raw, overflow_checks)
        prefixed(first, second, p1, p2, prefix2) ==
            IF first = "r" /\ second = <<"'">>
            THEN scan_raw_string(src, start, p2, "'")
            ELSE IF (first = "b" /\ second = <<"'">>) \/ (prefix2 /\ check(src, p2, "'"))
            THEN bytes(IF prefix2 THEN advance(src, p2) ELSE p2, prefix2)
            ELSE word(skip_while(src, IF prefix2 THEN p2 ELSE p1, {"a", "b", "r", "1", "4"}))
        second_char(first, second, p1) ==
            prefixed(first, second, p1, advance(src, p1),
                     /\ first \in {"r", "b"} /\ second # <<>>
                     /\ (first = "r" /\ second[1] = "b") \/ (first = "b" /\ second[1] = "r"))
        first_char(first, p1) == second_char(first, peek_char(src, p1), p1)
    IN  first_char(src[start + 1], advance(src, start))

\* Lexer::scan_number, entered at the first character.  The sources hold
\* no hex prefix and no exponent, and their numbers fit i64 and f64.
scan_number(src, start) ==
    LET number(kind, end) == make_token(src, start, end, kind, Text(src, start, end))
        integer(p1) ==
            IF check(src, p1, ".") /\ check_next_char(src, p1, {"1", "4"})
            THEN number("Float", skip_while(src, advance(src, p1), {"1", "4"}))
            ELSE number("Integer", p1)
    IN  integer(skip_while(src, start, {"1", "4"}))

\* Lexer::next_token: the token or error, with the lexer's new pos and start
next_token(src, pos0, start0, overflow_checks) ==
    LET returns(r, start) == [res |-> r, pos |-> r.pos, start |-> start]
        simple(start, p, kind) == make_token(src, start, p, kind, <<>>)
        dispatch(start, c, p) ==
            CASE c = ";" -> simple(start, p, "Semicolon")
              [] c = "*" -> simple(start, p, "Star")
              [] c = "#" -> simple(start, p, "Hash")
              [] c = "\\" -> simple(start, p, "Backslash")
              [] c = "-" -> simple(start, p, "Minus")
              [] c = "/" -> simple(start, p, "Slash")
              [] c = "." ->
                   IF check(src, p, ".") THEN simple(start, advance(src, p), "DoubleDot")
                   ELSE IF p < Len(src) /\ is_ascii_digit(src[p + 1])
                   THEN scan_number(src, start)
                   ELSE simple(start, p, "Dot")
              [] c = "=" -> simple(start, p, "Eq")
              [] c = "!" ->
                   IF check(src, p, "=") THEN simple(start, advance(src, p), "NotEq")
                   ELSE LErr("UnexpectedCharacter", start, start + 1, p)
              [] c = "'" -> scan_string(src, start, p, "'")
              [] is_ascii_digit(c) -> scan_number(src, start)
              [] is_ascii_alphabetic(c) ->
                   scan_identifier_or_keyword(src, start, overflow_checks)
              [] OTHER -> LErr("UnexpectedCharacter", start, start + 1, p)
        token(sk) ==
            IF ~sk.ok THEN returns(sk, start0)
            ELSE returns(IF is_at_end(src, sk.pos)
                         THEN make_token(src, sk.pos, sk.pos, "Eof", <<>>)
                         ELSE dispatch(sk.pos, src[sk.pos + 1], advance(src, sk.pos)),
                         sk.pos)
    IN  token(skip_whitespace_and_comments(src, pos0))

\* ------------------------------------------------ lexer state machine

MaxFrags == 2
MaxPeek == 2
MaxOut == 4

\* The pieces the sources are made of.
Fragments ==
    { <<"a">>, <<"1">>, <<" ">>, <<"\n">>, <<";">>, <<"!">>, <<"=">>, <<".">>,
      <<"-">>, <<"#">>, <<"\\">>, <<EAcute, Cont>>,
      <<"'", "'">>, <<"'", "a", "'">>, <<"'">>,
      <<"'", "\\", "4", "4", "4", "'">>,
      <<"b", "'", "\\", "1", "4", "4", "'">>,
      <<"b", "'", "\\", "4", "4", "4", "'">>,
      <<"r", "'", "\\", "'">>,
      <<"/", "*">>, <<"*", "/">>, <<"/", "*", "/", "*", "*", "/">>,
      <<"-", "-">> }

\* The sources: up to k fragments, one after the other.
RECURSIVE SourcesOf(_)
SourcesOf(k) ==
    IF k = 0 THEN {<<>>}
    ELSE SourcesOf(k - 1) \cup {s \o f : s \in SourcesOf(k - 1), f \in Fragments}

\* A Token (kind, value, span) or an Error (kind, span) as a call returns it.
LRes(r) == [ok |-> r.ok, kind |-> r.kind, value |-> r.value, s |-> r.s, e |-> r.e]
NoRes == [ok |-> TRUE, kind |-> "none", value |-> <<>>, s |-> 0, e |-> 0]

\* Lexer::new
InitLexer ==
    /\ input \in SourcesOf(MaxFrags)
    /\ lpos = 0
    /\ lstart = 0
    /\ peeked = <<>>
    /\ checks \in BOOLEAN
    /\ lOut = <<>>
    /\ lLast = [op |-> "none", n |-> 0, res |-> NoRes]
    /\ lPanicked = FALSE

\* The loop of Lexer::peek_nth: lex and buffer until the buffer holds more
\* than n tokens or next_token fails.
RECURSIVE peek_loop(_, _, _, _, _, _)
peek_loop(src, p, st, buf, n, oc) ==
    IF Len(buf) > n
    THEN [res |-> buf[n + 1], pos |-> p, start |-> st, peeked |-> buf, panic |-> FALSE]
    ELSE LET push(t) ==
                 IF ~t.res.ok
                 THEN [res |-> LRes(t.res), pos |-> t.pos, start |-> t.start,
                       peeked |-> buf, panic |-> t.res.panic]
                 ELSE peek_loop(src, t.pos, t.start, Append(buf, LRes(t.res)), n, oc)
         IN  push(next_token(src, p, st, oc))

\* Lexer::peek_nth
peek_nth(src, p, st, buf, n, oc) == peek_loop(src, p, st, buf, n, oc)

\* Lexer::peek
peek(src, p, st, buf, oc) ==
    IF buf = <<>>
    THEN LET push(t) ==
                 [res |-> LRes(t.res), pos |-> t.pos, start |-> t.start,
                  peeked |-> IF t.res.ok THEN <<LRes(t.res)>> ELSE buf,
                  panic |-> t.res.panic]
         IN  push(next_token(src, p, st, oc))
    ELSE [res |-> buf[1], pos |-> p, start |-> st, peeked |-> buf, panic |-> FALSE]

\* Lexer::next_token_result with the front of the buffer removed
next_token_result_back(src, p, st, buf, oc) ==
    IF buf # <<>>
    THEN [res |-> buf[Len(buf)], pos |-> p, start |-> st,
          peeked |-> SubSeq(buf, 1, Len(buf) - 1), panic |-> FALSE]
    ELSE LET lexed(t) ==
                 [res |-> LRes(t.res), pos |-> t.pos, start |-> t.start, peeked |-> buf,
                  panic |-> t.res.panic]
         IN  lexed(next_token(src, p, st, oc))

\* Lexer::next_token_result
next_token_result(src, p, st, buf, oc) ==
    IF buf # <<>>
    THEN [res |-> Head(buf), pos |-> p, start |-> st, peeked |-> Tail(buf),
          panic |-> FALSE]
    ELSE LET lexed(t) ==
                 [res |-> LRes(t.res), pos |-> t.pos, start |-> t.start, peeked |-> buf,
                  panic |-> t.res.panic]
         IN  lexed(next_token(src, p, st, oc))

\* The lexer after a call that left it as `r`.
LexerAfter(op, n, r) ==
    /\ lpos' = r.pos
    /\ lstart' = r.start
    /\ peeked' = r.peeked
    /\ lPanicked' = r.panic
    /\ lLast' = [op |-> op, n |-> n, res |-> r.res]
    /\ lOut' = IF op = "next" THEN Append(lOut, r.res) ELSE lOut
    /\ UNCHANGED <<input, checks>>
    /\ UNCHANGED <<aVars, pVars, tVars, sVars, cVars>>

\* a call of Lexer::peek
Peek ==
    /\ ~lPanicked
    /\ LexerAfter("peek", 0, peek(input, lpos, lstart, peeked, checks))

\* a call of Lexer::peek_nth(n)
PeekNth(n) ==
    /\ ~lPanicked
    /\ LexerAfter("peek_nth", n, peek_nth(input, lpos, lstart, peeked, n, checks))

\* a call of Lexer::next_token_result (Iterator::next)
NextTokenResult ==
    /\ ~lPanicked
    /\ Len(lOut) < MaxOut
    /\ LexerAfter("next", 0, next_token_result(input, lpos, lstart, peeked, checks))

NextLexer ==
    \/ Peek
    \/ \E n \in 0..MaxPeek : PeekNth(n)
    \/ NextTokenResult

InitSpecLexer ==
    InitLexer /\ InitAnalyzer /\ IdleParser /\ IdleTypeChecker /\ IdleSqlType
        /\ IdleCatalog

SpecLexer == InitSpecLexer /\ [][NextLexer]_vars

\* --------------------------------------------------- lexer properties

\* What repeated next_token() calls return on a fresh lexer with no
\* lookahead, up to and including the first Eof token or panic.
RECURSIVE LexAll(_, _, _, _)
LexAll(src, p, st, oc) ==
    LET rest(t) ==
            IF t.res.panic \/ (t.res.ok /\ t.res.kind = "Eof") THEN <<LRes(t.res)>>
            ELSE <<LRes(t.res)>> \o LexAll(src, t.pos, t.start, oc)
    IN  rest(next_token(src, p, st, oc))

SourceTokens == LexAll(input, 0, 0, checks)

\* The tokens came without an error.
NoLexErrors(toks) == \A k \in 1..Len(toks) : toks[k].ok

\* The k-th of the tokens; the Eof token repeats.
TokenAt(toks, k) == IF k <= Len(toks) THEN toks[k] ELSE toks[Len(toks)]

\* C3: on a source without lex errors, under any interleaving of peek,
\* peek_nth and next calls, the k-th next returns the k-th token of the
\* source, and peek_nth(n) (peek is n = 0) returns the token that the
\* (n+1)-th following next will return.
C3_LookaheadTransparent ==
    LET transparent(toks) ==
            NoLexErrors(toks) =>
                /\ \A k \in 1..Len(lOut) : lOut[k] = TokenAt(toks, k)
                /\ lLast.op \in {"peek", "peek_nth"} =>
                        lLast.res = TokenAt(toks, Len(lOut) + lLast.n + 1)
    IN  transparent(SourceTokens)

\* C29: under any interleaving of peek, peek_nth and next calls, also when
\* a peek or peek_nth failed with a lex error, the next calls return the
\* tokens of the source in order up to its first lex error, and the next
\* call that reaches the error returns that error: the k-th next returns
\* what the k-th next returns without lookahead, as long as no earlier
\* token of the source is an error.
C29_LookaheadKeepsLexError ==
    LET kept(toks) ==
            \A k \in 1..Len(lOut) :
                (k <= Len(toks) /\ \A j \in 1..(k - 1) : toks[j].ok) =>
                    lOut[k] = toks[k]
    IN  kept(SourceTokens)

\* peek() failed on the source `!a` with UnexpectedCharacter, and the next()
\* behind it returned the identifier a.
C29_ErrorSkipped ==
    /\ input = <<"!", "a">>
    /\ lLast.op = "next"
    /\ Len(lOut) = 1
    /\ lOut[1].ok /\ lOut[1].kind = "Identifier"

\* C3 witness: after a next, peek_nth(1) looked past a buffered token at a
\* second, different token of an error-free source.
C3_Witness ==
    /\ NoLexErrors(SourceTokens)
    /\ lLast.op = "peek_nth" /\ lLast.n = 1
    /\ Len(lOut) >= 1
    /\ Len(peeked) = 2 /\ peeked[1] # peeked[2]
    /\ peeked[1].kind # "Eof"

\* C4: lexing is total: no call panics, every error carries a span inside
\* the source, and every call returns.
C4_LexingTotal ==
    /\ ~lPanicked
    /\ (lLast.op # "none" /\ ~lLast.res.ok) =>
            0 <= lLast.res.s /\ lLast.res.s <= lLast.res.e

\* The lexer has reached the end of input: its position is the end of the
\* source and no token other than Eof waits in the lookahead buffer.
AtEndOfInput ==
    /\ is_at_end(input, lpos)
    /\ \A k \in 1..Len(peeked) : peeked[k].kind = "Eof"

SpanInSource(t) == 0 <= t.s /\ t.s <= t.e /\ t.e <= Len(input)

\* C17: every token the lexer produced (returned by next, returned by
\* peek or peek_nth, or held in the lookahead buffer; Eof included) has a
\* span [s, e) with 0 <= s <= e <= len(source).
C17_TokenSpans ==
    /\ \A k \in 1..Len(lOut) : lOut[k].ok => SpanInSource(lOut[k])
    /\ \A k \in 1..Len(peeked) : SpanInSource(peeked[k])
    /\ (lLast.op # "none" /\ lLast.res.ok) => SpanInSource(lLast.res)

\* C17 witness: after next returned a token of positive length,
\* peek_nth(1) returned the Eof token from the lookahead.
C17_Witness ==
    /\ Len(lOut) = 1 /\ lOut[1].ok /\ lOut[1].s < lOut[1].e
    /\ lLast.op = "peek_nth" /\ lLast.n = 1
    /\ lLast.res.ok /\ lLast.res.kind = "Eof"
    /\ Len(peeked) = 2 /\ peeked[1].kind # "Eof"

\* The source is a block comment opener followed by openers and closers.
IsCommentSource(src) ==
    /\ Len(src) >= 2 /\ Len(src) % 2 = 0
    /\ src[1] = "/" /\ src[2] = "*"
    /\ \A k \in 1..(Len(src) \div 2) :
          <<src[2 * k - 1], src[2 * k]>> \in {<<"/", "*">>, <<"*", "/">>}

\* Openers minus closers among the first k pairs of such a source.
RECURSIVE NestingDepth(_, _)
NestingDepth(src, k) ==
    IF k = 0 THEN 0
    ELSE NestingDepth(src, k - 1) + (IF src[2 * k - 1] = "/" THEN 1 ELSE -1)

\* The pairs after which the nesting depth is back at zero.
ClosingPairs(src) == {k \in 1..(Len(src) \div 2) : NestingDepth(src, k) = 0}

\* C18: block comments nest.  On a source of comment openers and closers
\* that starts with an opener, the first call (next, peek or peek_nth(0))
\* fails with UnterminatedBlockComment when the depth never returns to
\* zero, and otherwise returns the token that follows the first closer
\* that brings the depth back to zero.
C18_BlockCommentsNest ==
    [][(lLast.op = "none" /\ IsCommentSource(input) /\ lLast'.n = 0) =>
          IF ClosingPairs(input) = {}
          THEN ~lLast'.res.ok /\ lLast'.res.kind = "UnterminatedBlockComment"
          ELSE LET end == 2 * (CHOOSE k \in ClosingPairs(input) :
                                  \A j \in ClosingPairs(input) : k <= j)
               IN  lLast'.res = LRes(next_token(input, end, end, checks).res)]_vars

\* C18 witness: the nested comment /*/**/*/ was skipped as a whole and
\* next returned Eof at its end.
C18_Witness ==
    /\ input = <<"/", "*", "/", "*", "*", "/", "*", "/">>
    /\ Len(lOut) = 1 /\ lLast.op = "next"
    /\ lLast.res.ok /\ lLast.res.kind = "Eof" /\ lLast.res.s = 8

\* The source starts with the empty string literal '' (and not with a
\* triple quote).
StartsWithEmptyString(src) ==
    /\ Len(src) >= 2 /\ src[1] = "'" /\ src[2] = "'"
    /\ Len(src) >= 3 => src[3] # "'"

\* C23: the empty string literal '' lexes to a String token with an empty
\* value whose span is the two quotes, and the token after it is the one
\* the lexer finds behind the closing quote.
C23_EmptyStringLiteral ==
    StartsWithEmptyString(input) =>
        /\ Len(lOut) >= 1 =>
              lOut[1] = [ok |-> TRUE, kind |-> "String", value |-> <<>>, s |-> 0, e |-> 2]
        /\ Len(lOut) >= 2 => lOut[2] = LRes(next_token(input, 2, 2, checks).res)

\* ================================================================ parser
\* The Parser owns a Lexer over its source.  The parser is modelled over
\* the tokens that lexer yields (an Eof token follows the last one, again
\* and again), with pPos the number of tokens taken: Lexer::peek_nth(n)
\* looks at token pPos + n + 1 and Lexer::next_token_result takes token
\* pPos + 1.  Spans are not modelled.  The sources lex without an error,
\* so that no `?` on a lexer call returns early.

\* A Token: its TokenKind and its text.  A keyword's text names the Keyword.
Tok(kind, text) == [kind |-> kind, text |-> text]
Kw(keyword) == Tok("Keyword", keyword)

\* Keyword::is_reserved, on the keywords of the sources
is_reserved(kw) ==
    kw \in {"ALL", "AND", "AS", "BETWEEN", "DISTINCT", "EXCEPT", "FROM", "IN",
            "INTERSECT", "IS", "LIKE", "NOT", "OR", "SELECT", "UNION", "WHERE",
            "WITH"}

\* The outcome of a parsing function: Ok(val) or Err(err), and the
\* position it leaves the lexer at.
POk(val, pos) == [ok |-> TRUE, val |-> val, pos |-> pos, err |-> "none"]
PErr(err, pos) == [ok |-> FALSE, val |-> <<>>, pos |-> pos, err |-> err]
\* Err("Unmodelled") stands for the outcome of a function of the grammar
\* that the model does not describe.

\* Parser::peek_nth / Parser::peek
parser_peek_nth(toks, pos, n) ==
    IF pos + n < Len(toks) THEN toks[pos + n + 1] ELSE Tok("Eof", "")
parser_peek(toks, pos) == parser_peek_nth(toks, pos, 0)
\* Parser::advance: the position after the token taken
parser_advance(toks, pos) == IF pos < Len(toks) THEN pos + 1 ELSE pos
\* Parser::check / check_keyword
parser_check(toks, pos, expected) == parser_peek(toks, pos).kind = expected
check_keyword(toks, pos, keyword) == parser_peek(toks, pos) = Kw(keyword)
\* Parser::consume / consume_keyword: the position after the call; the
\* token was consumed (Some) iff the position moved.
consume(toks, pos, expected) ==
    IF parser_check(toks, pos, expected) THEN parser_advance(toks, pos) ELSE pos
consume_keyword(toks, pos, keyword) ==
    IF check_keyword(toks, pos, keyword) THEN parser_advance(toks, pos) ELSE pos
\* Parser::expect / expect_keyword: the token is taken, then compared.
expect(toks, pos, expected) ==
    IF parser_check(toks, pos, expected)
    THEN POk(parser_peek(toks, pos), parser_advance(toks, pos))
    ELSE PErr("UnexpectedToken", parser_advance(toks, pos))
expect_keyword(toks, pos, keyword) ==
    IF check_keyword(toks, pos, keyword)
    THEN POk(parser_peek(toks, pos), parser_advance(toks, pos))
    ELSE PErr("UnexpectedToken", parser_advance(toks, pos))

\* Parser::parse_identifier: the token is taken, then classified.
parse_identifier(toks, pos) ==
    LET ident(token, p) ==
            IF token.kind \in {"Identifier", "QuotedIdentifier"} THEN POk(token.text, p)
            ELSE IF token.kind = "Keyword" /\ ~is_reserved(token.text)
            THEN POk(token.text, p)
            ELSE PErr("ExpectedIdentifier", p)
    IN  ident(parser_peek(toks, pos), parser_advance(toks, pos))

\* Parser::parse_identifier_allow_reserved
parse_identifier_allow_reserved(toks, pos) ==
    LET ident(token, p) ==
            IF token.kind \in {"Identifier", "QuotedIdentifier", "Keyword"}
            THEN POk(token.text, p)
            ELSE PErr("ExpectedIdentifier", p)
    IN  ident(parser_peek(toks, pos), parser_advance(toks, pos))

\* The loop of Parser::parse_object_name: a part after every Dot.
RECURSIVE object_name_loop(_, _, _)
object_name_loop(toks, pos, parts) ==
    LET push(part) ==
            IF ~part.ok THEN part
            ELSE object_name_loop(toks, part.pos, Append(parts, part.val))
        dot(p) == IF p = pos THEN POk(parts, pos) ELSE push(parse_identifier(toks, p))
    IN  dot(consume(toks, pos, "Dot"))

\* Parser::parse_object_name
parse_object_name(toks, pos) ==
    LET first(part) ==
            IF ~part.ok THEN part ELSE object_name_loop(toks, part.pos, <<part.val>>)
    IN  first(parse_identifier(toks, pos))

\* Parser::parse_optional_alias: None is <<>>, Some(name) is <<name>>.
parse_optional_alias(toks, pos) ==
    LET some(name) == IF ~name.ok THEN name ELSE POk(<<name.val>>, name.pos)
        alias(token, as) ==
            IF as # pos THEN some(parse_identifier_allow_reserved(toks, as))
            ELSE IF token.kind = "Identifier" \/ token.kind # "Keyword"
            THEN IF \/ token.kind \in {"Identifier", "QuotedIdentifier"}
                    \/ (token.kind = "Keyword" /\ ~is_reserved(token.text))
                 THEN some(parse_identifier_allow_reserved(toks, pos))
                 ELSE POk(<<>>, pos)
            ELSE POk(<<>>, pos)
    IN  alias(parser_peek(toks, pos), consume_keyword(toks, pos, "AS"))

\* ------------------------------------------------- parser: expressions

\* BinaryOp::precedence (higher binds tighter)
precedence(op) ==
    CASE op = "Or" -> 1
      [] op = "And" -> 2
      [] op = "BitwiseOr" -> 3
      [] op = "BitwiseXor" -> 4
      [] op = "BitwiseAnd" -> 5
      [] op \in {"LeftShift", "RightShift"} -> 6
      [] op \in {"Plus", "Minus"} -> 7
      [] op \in {"Multiply", "Divide", "Modulo", "Concat"} -> 8
      [] op \in {"Eq", "NotEq", "Lt", "LtEq", "Gt", "GtEq"} -> 9

\* BinaryOp::is_left_associative with no operator left-associative
is_left_associative_never(op) == FALSE

\* BinaryOp::is_left_associative
is_left_associative(op) == TRUE

\* Parser::get_binary_op: None is <<>>
get_binary_op(kind) ==
    LET BinOp(op, prec) == <<[op |-> op, precedence |-> prec]>>
    IN
    CASE kind = "Plus" -> BinOp("Plus", 7)
      [] kind = "Minus" -> BinOp("Minus", 7)
      [] kind = "Star" -> BinOp("Multiply", 8)
      [] kind = "Slash" -> BinOp("Divide", 8)
      [] kind = "Percent" -> BinOp("Modulo", 8)
      [] kind = "Eq" -> BinOp("Eq", 9)
      [] kind \in {"NotEq", "LtGt"} -> BinOp("NotEq", 9)
      [] kind = "Lt" -> BinOp("Lt", 9)
      [] kind = "LtEq" -> BinOp("LtEq", 9)
      [] kind = "Gt" -> BinOp("Gt", 9)
      [] kind = "GtEq" -> BinOp("GtEq", 9)
      [] kind = "Ampersand" -> BinOp("BitwiseAnd", 5)
      [] kind = "Pipe" -> BinOp("BitwiseOr", 3)
      [] kind = "Caret" -> BinOp("BitwiseXor", 4)
      [] kind = "LeftShift" -> BinOp("LeftShift", 6)
      [] kind = "RightShift" -> BinOp("RightShift", 6)
      [] kind = "DoublePipe" -> BinOp("Concat", 8)
      [] OTHER -> <<>>

RECURSIVE parse_expression_with_precedence(_, _, _)
RECURSIVE expression_loop(_, _, _, _)
RECURSIVE parse_unary_expression(_, _)
RECURSIVE try_parse_postfix_expression(_, _, _)
RECURSIVE parse_query(_, _)
RECURSIVE parse_select_item(_, _)
RECURSIVE parse_parenthesized_expression(_, _)
RECURSIVE parse_primary_expression(_, _)
RECURSIVE parse_select(_, _)
RECURSIVE parse_query_primary(_, _)
RECURSIVE parse_query_body(_, _)

\* Parser::parse_expression
parse_expression(toks, pos) == parse_expression_with_precedence(toks, pos, 0)

\* Parser::parse_identifier_or_function; parse_function_call is not
\* described: no source holds a function call.
parse_identifier_or_function(toks, pos) ==
    LET object(name) ==
            IF ~name.ok THEN name
            ELSE IF parser_check(toks, name.pos, "LeftParen")
            THEN PErr("Unmodelled", name.pos)
            ELSE IF Len(name.val) = 1 THEN POk(EId(name.val[1]), name.pos)
            ELSE POk(ECompound(name.val), name.pos)
    IN  object(parse_object_name(toks, pos))

\* Parser::parse_parenthesized_expression; no source holds a tuple.
parse_parenthesized_expression(toks, pos) ==
    LET start == expect(toks, pos, "LeftParen")
        close(val, end) == IF ~end.ok THEN end ELSE POk(val, end.pos)
        subquery(query) ==
            IF ~query.ok THEN query
            ELSE close([kind |-> "Subquery", query |-> query.val], expect(toks, query.pos, "RightParen"))
        inner(expr) ==
            IF ~expr.ok THEN expr
            ELSE IF parser_check(toks, expr.pos, "Comma") THEN PErr("Unmodelled", expr.pos)
            ELSE close(EParen(expr.val), expect(toks, expr.pos, "RightParen"))
    IN  IF ~start.ok THEN start
        ELSE IF check_keyword(toks, start.pos, "SELECT")
                \/ check_keyword(toks, start.pos, "WITH")
        THEN subquery(parse_query(toks, start.pos))
        ELSE inner(parse_expression(toks, start.pos))

\* Parser::keyword_to_typed_literal: None is <<>>
keyword_to_typed_literal(kw) ==
    CASE kw = "DATE" -> <<"Date">>
      [] kw = "TIME" -> <<"Time">>
      [] kw = "TIMESTAMP" -> <<"Timestamp">>
      [] kw = "DATETIME" -> <<"Datetime">>
      [] kw = "JSON" -> <<"Json">>
      [] kw \in {"NUMERIC", "DECIMAL"} -> <<"Numeric">>
      [] OTHER -> <<>>

\* Parser::parse_primary_expression.  Of the literals the sources hold
\* integers and strings; they hold no parameter and no array literal.
parse_primary_expression(toks, pos) ==
    LET token == parser_peek(toks, pos)
        string_token == parser_peek_nth(toks, pos, 1)
    IN  IF token.kind = "Integer" THEN POk(EInt, parser_advance(toks, pos))
        ELSE IF token.kind = "String" THEN POk(EStr, parser_advance(toks, pos))
        ELSE IF token.kind = "Keyword" /\ keyword_to_typed_literal(token.text) # <<>>
        THEN IF string_token.kind = "String"
             THEN POk(Expr("TypedLiteral", keyword_to_typed_literal(token.text)[1],
                           <<>>, "", <<>>, T("Unknown")),
                      parser_advance(toks, parser_advance(toks, pos)))
             ELSE PErr("UnexpectedToken", parser_advance(toks, parser_advance(toks, pos)))
        ELSE IF token.kind = "Keyword" /\ is_reserved(token.text)
        THEN PErr("UnexpectedToken", pos)
        ELSE IF token.kind \in {"Keyword", "Identifier", "QuotedIdentifier"}
        THEN parse_identifier_or_function(toks, pos)
        ELSE IF token.kind = "LeftParen" THEN parse_parenthesized_expression(toks, pos)
        ELSE PErr("ExpectedExpression", pos)

\* Parser::parse_unary_expression.  The sources hold none of the keywords
\* EXISTS, CASE, CAST, SAFE_CAST, EXTRACT, INTERVAL, ARRAY, STRUCT, IF.
parse_unary_expression(toks, pos) ==
    LET kind == parser_peek(toks, pos).kind
        op == IF check_keyword(toks, pos, "NOT") THEN "Not"
              ELSE CASE kind = "Plus" -> "Plus"
                     [] kind = "Minus" -> "Minus"
                     [] kind = "Tilde" -> "BitwiseNot"
                     [] OTHER -> ""
        unary(expr) == IF ~expr.ok THEN expr ELSE POk(EUnary(op, expr.val), expr.pos)
    IN  IF op # "" THEN unary(parse_unary_expression(toks, parser_advance(toks, pos)))
        ELSE parse_primary_expression(toks, pos)

\* Parser::parse_is_expression: IS [NOT] NULL | TRUE | FALSE.  The test is
\* the node's name, `negated` its op.
parse_is_expression(toks, pos, left) ==
    LET p == consume_keyword(toks, pos, "NOT")
        negated == IF p # pos THEN "negated" ELSE ""
        token == parser_peek(toks, p)
        test == CASE token.kind = "Null" -> "Null"
                  [] token = Tok("Boolean", "true") -> "True"
                  [] token = Tok("Boolean", "false") -> "False"
                  [] OTHER -> ""
    IN  IF test = "" THEN PErr("UnexpectedToken", parser_advance(toks, p))
        ELSE POk(<<Expr("IsExpr", test, <<>>, negated, <<left>>, T("Unknown"))>>,
                 parser_advance(toks, p))

\* The BETWEEN arms of try_parse_postfix_expression with the keywords taken:
\* low, AND, high, both bounds parsed at precedence 10.
parse_between(toks, pos, left, negated) ==
    LET close(low, high) ==
            IF ~high.ok THEN high
            ELSE POk(<<Expr("Between", "", <<>>, negated,
                            <<left, low.val, high.val>>, T("Unknown"))>>, high.pos)
        upper(low, kw) ==
            IF ~kw.ok THEN kw
            ELSE close(low, parse_expression_with_precedence(toks, kw.pos, 10))
        lower(low) ==
            IF ~low.ok THEN low ELSE upper(low, expect_keyword(toks, low.pos, "AND"))
    IN  lower(parse_expression_with_precedence(toks, pos, 10))

\* Parser::try_parse_postfix_expression: Ok(None) is <<>>, Ok(Some(e)) is
\* <<e>>.  Of the tokens that start a postfix the sources hold the Dot and
\* the keywords BETWEEN, NOT and IS; parse_array_subscript_index,
\* parse_in_expression and parse_like_expression are not described.
try_parse_postfix_expression(toks, pos, left) ==
    LET access(field) ==
            IF ~field.ok THEN field
            ELSE POk(<<Expr("FieldAccess", field.val, <<>>, "", <<left>>, T("Unknown"))>>,
                     field.pos)
        next == parser_peek_nth(toks, pos, 1)
        after == parser_advance(toks, pos)
    IN  IF parser_check(toks, pos, "Dot")
        THEN access(parse_identifier(toks, after))
        ELSE IF parser_check(toks, pos, "LeftBracket") THEN PErr("Unmodelled", after)
        ELSE IF check_keyword(toks, pos, "BETWEEN") THEN parse_between(toks, after, left, "")
        ELSE IF check_keyword(toks, pos, "NOT")
        THEN IF next = Kw("BETWEEN")
             THEN parse_between(toks, parser_advance(toks, after), left, "negated")
             ELSE IF next \in {Kw("IN"), Kw("LIKE")} THEN PErr("Unmodelled", after)
             ELSE POk(<<>>, pos)
        ELSE IF check_keyword(toks, pos, "IN") \/ check_keyword(toks, pos, "LIKE")
        THEN PErr("Unmodelled", after)
        ELSE IF check_keyword(toks, pos, "IS") THEN parse_is_expression(toks, after, left)
        ELSE POk(<<>>, pos)

\* The loop of parse_expression_with_precedence with `left` parsed.
expression_loop(toks, pos, left, min_precedence) ==
    LET fold(op, right) ==
            IF ~right.ok THEN right
            ELSE expression_loop(toks, right.pos, EBin(op, left, right.val), min_precedence)
        operator(op, prec, next_precedence) ==
            IF prec < min_precedence THEN POk(left, pos)
            ELSE fold(op, parse_expression_with_precedence(
                              toks, parser_advance(toks, pos), next_precedence))
        postfix(new_left) ==
            IF ~new_left.ok THEN new_left
            ELSE IF new_left.val = <<>> THEN POk(left, pos)
            ELSE expression_loop(toks, new_left.pos, new_left.val[1], min_precedence)
        binary(b) ==
            IF b # <<>>
            THEN operator(b[1].op, b[1].precedence,
                          IF is_left_associative(b[1].op) THEN b[1].precedence + 1
                          ELSE b[1].precedence)
            ELSE IF check_keyword(toks, pos, "AND")
            THEN operator("And", precedence("And"), precedence("And") + 1)
            ELSE IF check_keyword(toks, pos, "OR")
            THEN operator("Or", precedence("Or"), precedence("Or") + 1)
            ELSE postfix(try_parse_postfix_expression(toks, pos, left))
    IN  binary(get_binary_op(parser_peek(toks, pos).kind))

\* Parser::parse_expression_with_precedence
parse_expression_with_precedence(toks, pos, min_precedence) ==
    LET unary(left) ==
            IF ~left.ok THEN left
            ELSE expression_loop(toks, left.pos, left.val, min_precedence)
    IN  unary(parse_unary_expression(toks, pos))

\* ------------------------------------------------------ parser: queries

\* Parser::parse_comma_separated(|p| p.parse_identifier()) with `items`
\* parsed: an identifier, then one after every Comma.
RECURSIVE parse_identifiers(_, _, _)
parse_identifiers(toks, pos, items) ==
    LET comma(item, p) ==
            IF p = item.pos THEN POk(Append(items, item.val), p)
            ELSE parse_identifiers(toks, p, Append(items, item.val))
        push(item) == IF ~item.ok THEN item ELSE comma(item, consume(toks, item.pos, "Comma"))
    IN  push(parse_identifier(toks, pos))

\* Parser::parse_comma_separated(|p| p.parse_select_item()) with `items`
\* parsed: a select item, then one after every Comma.
RECURSIVE parse_select_items(_, _, _)
parse_select_items(toks, pos, items) ==
    LET comma(item, p) ==
            IF p = item.pos THEN POk(Append(items, item.val), p)
            ELSE parse_select_items(toks, p, Append(items, item.val))
        push(item) == IF ~item.ok THEN item ELSE comma(item, consume(toks, item.pos, "Comma"))
    IN  push(parse_select_item(toks, pos))

\* What parse_select_item makes of the tokens after `*` (qualifier None,
\* <<>>) and after `ident.*` (Some, <<parts>>): EXCEPT (cols) or the plain
\* wildcard.  No source holds the keyword REPLACE.
wildcard_item(toks, pos, qualifier) ==
    LET close(cols, end) ==
            IF ~end.ok THEN end
            ELSE POk([kind |-> "WildcardExcept", qualifier |-> qualifier,
                      except |-> cols], end.pos)
        columns(cols) ==
            IF ~cols.ok THEN cols
            ELSE close(cols.val, expect(toks, cols.pos, "RightParen"))
        open(start) ==
            IF ~start.ok THEN start
            ELSE columns(parse_identifiers(toks, start.pos, <<>>))
        except(p) ==
            IF p # pos THEN open(expect(toks, p, "LeftParen"))
            ELSE IF qualifier = <<>> THEN POk(ItemWildcard, pos)
            ELSE POk(ItemQualified(qualifier[1]), pos)
    IN  except(consume_keyword(toks, pos, "EXCEPT"))

\* Parser::parse_select_item
parse_select_item(toks, pos) ==
    LET aliased(expr, name) ==
            IF ~name.ok THEN name ELSE POk(ItemExpr(expr, name.val), name.pos)
        dot_star(expr, dot, star) ==
            IF dot # star
            THEN wildcard_item(toks, star, <<<<expr.val.name>>>>)
            ELSE aliased(expr.val, parse_optional_alias(toks, dot))
        dotted(expr, dot) ==
            dot_star(expr, dot, IF dot # expr.pos THEN consume(toks, dot, "Star") ELSE dot)
        expression(expr) ==
            IF ~expr.ok THEN expr
            ELSE IF expr.val.kind = "Identifier"
            THEN dotted(expr, consume(toks, expr.pos, "Dot"))
            ELSE aliased(expr.val, parse_optional_alias(toks, expr.pos))
    IN  IF consume(toks, pos, "Star") # pos
        THEN wildcard_item(toks, consume(toks, pos, "Star"), <<>>)
        ELSE expression(parse_expression(toks, pos))

\* Parser::parse_select_as: Some(SelectAs::TypeName(name)) is <<name>>.
\* No source holds the keywords STRUCT and VALUE.
parse_select_as(toks, pos) ==
    LET type_name(name) == IF ~name.ok THEN name ELSE POk(<<name.val>>, name.pos)
    IN  IF /\ check_keyword(toks, pos, "AS")
           /\ parser_peek_nth(toks, pos, 1).kind \in {"Identifier", "QuotedIdentifier"}
        THEN type_name(parse_object_name(toks, consume_keyword(toks, pos, "AS")))
        ELSE POk(<<>>, pos)

\* Parser::parse_select.  The sources hold none of the keywords FROM,
\* WHERE, GROUP, HAVING, QUALIFY, WINDOW: these clauses are absent.
parse_select(toks, pos) ==
    LET start == expect_keyword(toks, pos, "SELECT")
        select_as == parse_select_as(toks, start.pos)
        distinct == consume_keyword(toks, select_as.pos, "DISTINCT")
        all == consume_keyword(toks, select_as.pos, "ALL")
        projection(items) ==
            IF ~items.ok THEN items
            ELSE POk([select_as |-> select_as.val,
                      distinct |-> IF distinct # select_as.pos THEN <<"Distinct">>
                                   ELSE IF all # select_as.pos THEN <<"All">> ELSE <<>>]
                        @@ Select(items.val, <<>>, <<>>, <<>>, <<>>), items.pos)
    IN  IF ~start.ok THEN start
        ELSE IF ~select_as.ok THEN select_as
        ELSE projection(parse_select_items(
                 toks, IF distinct # select_as.pos THEN distinct ELSE all, <<>>))

\* Parser::parse_query_primary
parse_query_primary(toks, pos) ==
    LET close(query, end) ==
            IF ~end.ok THEN end ELSE POk([kind |-> "Parenthesized", query |-> query], end.pos)
        parenthesized(query) ==
            IF ~query.ok THEN query
            ELSE close(query.val, expect(toks, query.pos, "RightParen"))
        select(s) == IF ~s.ok THEN s ELSE POk(BodySelect(s.val), s.pos)
    IN  IF consume(toks, pos, "LeftParen") # pos
        THEN parenthesized(parse_query(toks, consume(toks, pos, "LeftParen")))
        ELSE select(parse_select(toks, pos))

\* The loop of Parser::parse_query_body with `left` parsed.
RECURSIVE set_operation_loop(_, _, _)
set_operation_loop(toks, pos, left) ==
    LET op == IF check_keyword(toks, pos, "UNION") THEN "Union"
              ELSE IF check_keyword(toks, pos, "INTERSECT") THEN "Intersect"
              ELSE IF check_keyword(toks, pos, "EXCEPT") THEN "Except"
              ELSE ""
        all == consume_keyword(toks, parser_advance(toks, pos), "ALL")
        fold(right) ==
            IF ~right.ok THEN right
            ELSE set_operation_loop(
                     toks, right.pos,
                     [kind |-> "SetOperation", op |-> op,
                      all |-> all # parser_advance(toks, pos),
                      left |-> left, right |-> right.val])
    IN  IF op = "" THEN POk(left, pos)
        ELSE fold(parse_query_primary(
                      toks, IF all # parser_advance(toks, pos) THEN all
                            ELSE consume_keyword(toks, parser_advance(toks, pos), "DISTINCT")))

\* Parser::parse_query_body
parse_query_body(toks, pos) ==
    LET primary(left) ==
            IF ~left.ok THEN left ELSE set_operation_loop(toks, left.pos, left.val)
    IN  primary(parse_query_primary(toks, pos))

\* Parser::parse_query.  The sources hold none of the keywords WITH,
\* ORDER, LIMIT, OFFSET: the query has its body only.
parse_query(toks, pos) ==
    LET body(b) == IF ~b.ok THEN b ELSE POk(Query(<<>>, b.val, <<>>, <<>>), b.pos)
    IN  body(parse_query_body(toks, pos))

\* --------------------------------------------------- parser: statements

\* Parser::parse_statement.  Of the keywords that start a statement the
\* sources hold SELECT and COMMIT.
parse_statement(toks, pos) ==
    LET token == parser_peek(toks, pos)
        query(q) == IF ~q.ok THEN q ELSE POk(StmtQuery(q.val), q.pos)
    IN  IF token = Kw("SELECT") \/ token = Kw("WITH") \/ token.kind = "LeftParen"
        THEN query(parse_query(toks, pos))
        ELSE IF token = Kw("COMMIT") THEN POk([kind |-> "Commit"], parser_advance(toks, pos))
        ELSE PErr("UnexpectedToken", pos)

\* `while self.consume(&TokenKind::Semicolon)?.is_some() {}`
RECURSIVE skip_semicolons(_, _)
skip_semicolons(toks, pos) ==
    IF parser_check(toks, pos, "Semicolon")
    THEN skip_semicolons(toks, parser_advance(toks, pos)) ELSE pos

\* The loop of Parser::parse with `statements` parsed; check_eof is
\* peek()?.is_eof().
RECURSIVE parse_loop(_, _, _)
parse_loop(toks, pos, statements) ==
    LET p == skip_semicolons(toks, pos)
        push(stmt) ==
            IF ~stmt.ok THEN stmt
            ELSE parse_loop(toks, consume(toks, stmt.pos, "Semicolon"),
                            Append(statements, stmt.val))
    IN  IF parser_peek(toks, p).kind = "Eof" THEN POk(statements, p)
        ELSE push(parse_statement(toks, p))

\* Parser::parse
parse(toks, pos) == parse_loop(toks, pos, <<>>)

\* ----------------------------------------------- parser state machine

MaxStmtFrags == 3
MaxParserCalls == 2

\* The tokens of the binary operators, keywords AND and OR among them.
OperatorTokens ==
    { Tok("Plus", "+"), Tok("Minus", "-"), Tok("Star", "*"), Tok("Slash", "/"),
      Tok("Percent", "%"), Tok("Eq", "="), Tok("NotEq", "!="), Tok("LtGt", "<>"),
      Tok("Lt", "<"), Tok("LtEq", "<="), Tok("Gt", ">"), Tok("GtEq", ">="),
      Tok("Ampersand", "&"), Tok("Pipe", "|"), Tok("Caret", "^"),
      Tok("LeftShift", "<<"), Tok("RightShift", ">>"), Tok("DoublePipe", "||"),
      Kw("AND"), Kw("OR") }

\* The tokens of `a op1 b op2 c`.
Ternary(op1, op2) == <<Tok("Identifier", "a"), op1, Tok("Identifier", "b"), op2, Tok("Identifier", "c")>>
TernarySources == {Ternary(op1, op2) : op1, op2 \in OperatorTokens}

TSemicolon == Tok("Semicolon", ";")
TLeftParen == Tok("LeftParen", "(")
TRightParen == Tok("RightParen", ")")
TInteger == Tok("Integer", "1")
TDot == Tok("Dot", ".")
TStar == Tok("Star", "*")
TComma == Tok("Comma", ",")

\* SELECT t.* and SELECT t.* EXCEPT (a)
SelectQualifiedWildcard == <<Kw("SELECT"), Tok("Identifier", "t"), TDot, TStar>>
SelectQualifiedWildcardExcept ==
    SelectQualifiedWildcard \o <<Kw("EXCEPT"), TLeftParen, Tok("Identifier", "a"), TRightParen>>

\* The pieces the statement sources are made of.
StatementFragments ==
    { <<TSemicolon>>,
      <<Kw("COMMIT")>>,
      <<Kw("COMMIT"), TSemicolon>>,
      <<Kw("SELECT"), TInteger>>,
      <<Kw("SELECT"), TInteger, TSemicolon>>,
      <<Kw("SELECT"), TStar>>,
      <<Kw("SELECT"), Tok("Identifier", "a"), Kw("AS"), Tok("Identifier", "b")>>,
      <<Kw("SELECT"), Tok("Identifier", "t"), TDot, Tok("Identifier", "b"), TComma, TInteger>>,
      <<Kw("SELECT"), TStar, Kw("EXCEPT"), TLeftParen, Tok("Identifier", "a"), TComma, Tok("Identifier", "b"),
        TRightParen>>,
      <<TLeftParen, Kw("SELECT"), TInteger, TRightParen>>,
      SelectQualifiedWildcard,
      SelectQualifiedWildcardExcept }

\* Keywords of the keyword table: reserved ones and non-reserved ones.
SourceKeywords ==
    { "ALL", "AS", "DISTINCT", "FROM", "SELECT", "UNION", "WHERE",
      "COMMIT", "REPLACE", "DATE", "TIMESTAMP", "JSON" }

\* A keyword where an expression is expected, and where an identifier is:
\* `kw` and `SELECT * EXCEPT (kw)`; and the typed literal DATE '...'.
KeywordAsExpression(kw) == <<Kw(kw)>>
KeywordAsIdentifier(kw) ==
    <<Kw("SELECT"), TStar, Kw("EXCEPT"), TLeftParen, Kw(kw), TRightParen>>
KeywordSources ==
    {KeywordAsExpression(kw) : kw \in SourceKeywords}
        \cup {KeywordAsIdentifier(kw) : kw \in SourceKeywords}
        \cup {<<Kw("DATE"), Tok("String", "x")>>}

TNull == Tok("Null", "NULL")
ComparisonTokens ==
    { Tok("Eq", "="), Tok("NotEq", "!="), Tok("LtGt", "<>"), Tok("Lt", "<"),
      Tok("LtEq", "<="), Tok("Gt", ">"), Tok("GtEq", ">=") }
ArithmeticTokens ==
    { Tok("Plus", "+"), Tok("Minus", "-"), Tok("Star", "*"), Tok("Slash", "/"),
      Tok("Percent", "%"), Tok("DoublePipe", "||") }

\* `NOT a op b`
NotComparison(op) == <<Kw("NOT"), Tok("Identifier", "a"), op, Tok("Identifier", "b")>>
\* `a op b IS NULL` and `a op b IS NOT NULL`
BinaryIsNull(op) ==
    <<Tok("Identifier", "a"), op, Tok("Identifier", "b"), Kw("IS"), TNull>>
BinaryIsNotNull(op) ==
    <<Tok("Identifier", "a"), op, Tok("Identifier", "b"), Kw("IS"), Kw("NOT"), TNull>>
\* `x BETWEEN 1 AND 1`, `x BETWEEN 1 op 1 AND 1` and `x BETWEEN 1 AND 1 op 1`
BetweenPlain == <<Tok("Identifier", "x"), Kw("BETWEEN"), TInteger, Kw("AND"), TInteger>>
BetweenLow(op) ==
    <<Tok("Identifier", "x"), Kw("BETWEEN"), TInteger, op, TInteger, Kw("AND"), TInteger>>
BetweenHigh(op) ==
    <<Tok("Identifier", "x"), Kw("BETWEEN"), TInteger, Kw("AND"), TInteger, op, TInteger>>
\* The sources with NOT and with a postfix predicate.
PredicateSources ==
    {NotComparison(op) : op \in ComparisonTokens}
        \cup {BinaryIsNull(op) : op \in ArithmeticTokens}
        \cup {BinaryIsNotNull(op) : op \in ArithmeticTokens}
        \cup {BetweenLow(op) : op \in ArithmeticTokens}
        \cup {BetweenHigh(op) : op \in ArithmeticTokens}
        \cup { BetweenPlain,
               <<Tok("Identifier", "x"), Kw("NOT"), Kw("BETWEEN"), TInteger, Kw("AND"), TInteger>>,
               <<Tok("Identifier", "a"), Kw("IS"), TNull>>,
               <<Kw("NOT"), Tok("Identifier", "a")>> }

\* The statement sources: up to k fragments, one after the other.
RECURSIVE StatementSources(_)
StatementSources(k) ==
    IF k = 0 THEN {<<>>}
    ELSE StatementSources(k - 1)
            \cup {s \o f : s \in StatementSources(k - 1), f \in StatementFragments}

\* Parser::new
InitParser ==
    /\ pTokens \in TernarySources \cup StatementSources(MaxStmtFrags) \cup KeywordSources
                    \cup PredicateSources
    /\ pPos = 0
    /\ pCalls = 0
    /\ pLast = NoParse

InitSpecParser ==
    InitParser /\ InitAnalyzer /\ IdleLexer /\ IdleTypeChecker /\ IdleSqlType
        /\ IdleCatalog

\* The parser after a call that returned r.  A call that enters a function
\* outside the modelled grammar is not made.
ParserAfter(op, r) ==
    /\ pCalls < MaxParserCalls
    /\ r.err # "Unmodelled"
    /\ pPos' = r.pos
    /\ pCalls' = pCalls + 1
    /\ pLast' = [op |-> op, from |-> pPos, res |-> r]
    /\ UNCHANGED pTokens
    /\ UNCHANGED <<aVars, lVars, tVars, sVars, cVars>>

\* a call of Parser::parse
Parse == ParserAfter("parse", parse(pTokens, pPos))

\* a call of Parser::parse_statement
ParseStatement == ParserAfter("parse_statement", parse_statement(pTokens, pPos))

\* a call of Parser::parse_query
ParseQuery == ParserAfter("parse_query", parse_query(pTokens, pPos))

\* a call of Parser::parse_expression
ParseExpression == ParserAfter("parse_expression", parse_expression(pTokens, pPos))

NextParser ==
    \/ Parse
    \/ ParseStatement
    \/ ParseQuery
    \/ ParseExpression

SpecParser == InitSpecParser /\ [][NextParser]_vars

\* -------------------------------------------------- parser properties

\* The non-empty semicolon-separated segments of a source: the tokens
\* other than a semicolon that start the source or follow a semicolon.
StatementSegments(toks) ==
    Cardinality({i \in 1..Len(toks) :
                    /\ toks[i].kind # "Semicolon"
                    /\ (i = 1 \/ toks[i - 1].kind = "Semicolon")})

\* C5: parse() of a source, when it succeeds, returns exactly one statement
\* per non-empty semicolon-separated segment of the source.
C5_OnePerSegment ==
    (pLast.op = "parse" /\ pLast.from = 0 /\ pLast.res.ok) =>
        Len(pLast.res.val) = StatementSegments(pTokens)

\* The precedence table of the operators, lowest level first, by the
\* operators' text.
PrecedenceTable ==
    << {"OR"}, {"AND"}, {"|"}, {"^"}, {"&"}, {"<<", ">>"}, {"+", "-"},
       {"*", "/", "%", "||"}, {"=", "!=", "<>", "<", "<=", ">", ">="} >>
TableLevel(tok) == CHOOSE l \in 1..Len(PrecedenceTable) : tok.text \in PrecedenceTable[l]

\* The BinaryOp an operator's text stands for.
OperatorNamed(text) ==
    CASE text = "OR" -> "Or" [] text = "AND" -> "And" [] text = "|" -> "BitwiseOr"
      [] text = "^" -> "BitwiseXor" [] text = "&" -> "BitwiseAnd"
      [] text = "<<" -> "LeftShift" [] text = ">>" -> "RightShift"
      [] text = "+" -> "Plus" [] text = "-" -> "Minus" [] text = "*" -> "Multiply"
      [] text = "/" -> "Divide" [] text = "%" -> "Modulo" [] text = "||" -> "Concat"
      [] text = "=" -> "Eq" [] text \in {"!=", "<>"} -> "NotEq" [] text = "<" -> "Lt"
      [] text = "<=" -> "LtEq" [] text = ">" -> "Gt" [] text = ">=" -> "GtEq"

\* The tree of `a op1 b op2 c` that groups b with the operator of higher
\* level, and groups left on equal levels.
Grouped(op1, op2) ==
    IF TableLevel(op2) > TableLevel(op1)
    THEN EBin(OperatorNamed(op1.text), EId("a"),
              EBin(OperatorNamed(op2.text), EId("b"), EId("c")))
    ELSE EBin(OperatorNamed(op2.text),
              EBin(OperatorNamed(op1.text), EId("a"), EId("b")), EId("c"))

\* parse_expression() was called on the source `a op1 b op2 c`.
ParsedTernary ==
    /\ pLast.op = "parse_expression" /\ pLast.from = 0
    /\ pTokens \in TernarySources

\* C6: for any two binary operators op1, op2 of the precedence table,
\* parse_expression() of `a op1 b op2 c` succeeds, takes all the tokens and
\* groups b with the operator of higher precedence; on equal precedence it
\* groups left, as (a op1 b) op2 c.
C6_PrecedenceGrouping ==
    ParsedTernary =>
        /\ pLast.res.ok
        /\ pLast.res.pos = Len(pTokens)
        /\ pLast.res.val = Grouped(pTokens[2], pTokens[4])

\* C6 witness: `a + b * c` parsed into a + (b * c).
C6_Witness ==
    /\ ParsedTernary
    /\ pTokens = Ternary(Tok("Plus", "+"), Tok("Star", "*"))
    /\ pLast.res.ok
    /\ pLast.res.val = EBin("Plus", EId("a"), EBin("Multiply", EId("b"), EId("c")))

\* parse_expression() was called at the start of the source `toks`.
ParsedSource(toks) ==
    pLast.op = "parse_expression" /\ pLast.from = 0 /\ pTokens = toks

\* C25: for every comparison operator op, parse_expression() of `NOT a op b`
\* succeeds, takes all the tokens and yields NOT applied to the comparison
\* (a op b), not a comparison whose left operand is (NOT a).
C25_NotBindsLooserThanComparison ==
    \A op \in ComparisonTokens :
        ParsedSource(NotComparison(op)) =>
            /\ pLast.res.ok
            /\ pLast.res.pos = Len(pTokens)
            /\ pLast.res.val =
                   EUnary("Not", EBin(OperatorNamed(op.text), EId("a"), EId("b")))

\* `NOT a = b` parsed into (NOT a) = b.
C25_NotTakesLeftOperand ==
    /\ ParsedSource(NotComparison(Tok("Eq", "=")))
    /\ pLast.res.ok
    /\ pLast.res.val = EBin("Eq", EUnary("Not", EId("a")), EId("b"))

\* C26: for every arithmetic or concatenation operator op,
\* parse_expression() of `a op b IS NULL` and of `a op b IS NOT NULL`
\* succeeds, takes all the tokens and yields the IS test over the whole
\* expression (a op b), not a op (b IS NULL).
C26_PostfixAppliesToWholeExpression ==
    \A op \in ArithmeticTokens :
        /\ ParsedSource(BinaryIsNull(op)) =>
              /\ pLast.res.ok
              /\ pLast.res.pos = Len(pTokens)
              /\ pLast.res.val =
                     Expr("IsExpr", "Null", <<>>, "",
                          <<EBin(OperatorNamed(op.text), EId("a"), EId("b"))>>, T("Unknown"))
        /\ ParsedSource(BinaryIsNotNull(op)) =>
              /\ pLast.res.ok
              /\ pLast.res.pos = Len(pTokens)
              /\ pLast.res.val =
                     Expr("IsExpr", "Null", <<>>, "negated",
                          <<EBin(OperatorNamed(op.text), EId("a"), EId("b"))>>, T("Unknown"))

\* `a + b IS NULL` parsed into a + (b IS NULL).
C26_PostfixTakesRightOperand ==
    /\ ParsedSource(BinaryIsNull(Tok("Plus", "+")))
    /\ pLast.res.ok
    /\ pLast.res.val =
           EBin("Plus", EId("a"),
                Expr("IsExpr", "Null", <<>>, "", <<EId("b")>>, T("Unknown")))

\* C27: for every arithmetic operator op, parse_expression() of
\* `x BETWEEN 1 op 1 AND 1` and of `x BETWEEN 1 AND 1 op 1` succeeds, takes
\* all the tokens and yields a single Between node over x whose low and
\* high are the complete bound expressions.
C27_BetweenBoundsArithmetic ==
    \A op \in ArithmeticTokens :
        /\ ParsedSource(BetweenLow(op)) =>
              /\ pLast.res.ok
              /\ pLast.res.pos = Len(pTokens)
              /\ pLast.res.val =
                     Expr("Between", "", <<>>, "",
                          <<EId("x"), EBin(OperatorNamed(op.text), EInt, EInt), EInt>>,
                          T("Unknown"))
        /\ ParsedSource(BetweenHigh(op)) =>
              /\ pLast.res.ok
              /\ pLast.res.pos = Len(pTokens)
              /\ pLast.res.val =
                     Expr("Between", "", <<>>, "",
                          <<EId("x"), EInt, EBin(OperatorNamed(op.text), EInt, EInt)>>,
                          T("Unknown"))

\* `x BETWEEN 1 AND 1 + 1` parsed into (x BETWEEN 1 AND 1) + 1.
C27_BetweenSplitsHighBound ==
    /\ ParsedSource(BetweenHigh(Tok("Plus", "+")))
    /\ pLast.res.ok
    /\ pLast.res.val =
           EBin("Plus", Expr("Between", "", <<>>, "", <<EId("x"), EInt, EInt>>, T("Unknown")),
                EInt)

\* `x BETWEEN 1 + 1 AND 1` rejected at the operator of the low bound.
C27_BetweenRejectsLowBound ==
    /\ ParsedSource(BetweenLow(Tok("Plus", "+")))
    /\ ~pLast.res.ok
    /\ pLast.res.err = "UnexpectedToken"

\* `x BETWEEN 1 AND 1` parsed into one Between node.
BetweenPlainParses ==
    ParsedSource(BetweenPlain) =>
        /\ pLast.res.ok
        /\ pLast.res.val = Expr("Between", "", <<>>, "", <<EId("x"), EInt, EInt>>, T("Unknown"))

\* C8: parse_statement() of `SELECT t.*`, with or without EXCEPT (cols)
\* behind it, succeeds with one select item, a qualified wildcard of
\* qualifier t.
C8_QualifiedWildcardParses ==
    ( /\ pLast.op = "parse_statement" /\ pLast.from = 0
      /\ pTokens \in {SelectQualifiedWildcard, SelectQualifiedWildcardExcept} ) =>
        /\ pLast.res.ok
        /\ Len(pLast.res.val.query.body.select.projection) = 1
        /\ pLast.res.val.query.body.select.projection[1].kind
              \in {"QualifiedWildcard", "WildcardExcept"}
        /\ pLast.res.val.query.body.select.projection[1].qualifier
              \in {<<"t">>, <<<<"t">>>>}

\* C12: parse_statement, parse_query and parse_expression fail when
\* tokens other than the end of input remain after what they parsed: a
\* call that succeeds leaves the parser at the end of input.
C12_TrailingTokensRejected ==
    (pLast.op \in {"parse_statement", "parse_query", "parse_expression"}
        /\ pLast.res.ok) =>
        parser_peek(pTokens, pLast.res.pos).kind = "Eof"

\* C13: where an identifier is expected (the column list of EXCEPT) and
\* where an expression is, a reserved keyword is rejected and a
\* non-reserved keyword is accepted as the identifier of its text.
C13_KeywordClassification ==
    /\ (pLast.op = "parse_expression" /\ pLast.from = 0
          /\ \E kw \in SourceKeywords : pTokens = KeywordAsExpression(kw)) =>
            IF is_reserved(pTokens[1].text) THEN ~pLast.res.ok
            ELSE pLast.res.ok /\ pLast.res.val = EId(pTokens[1].text)
    /\ (pLast.op = "parse_statement" /\ pLast.from = 0
          /\ \E kw \in SourceKeywords : pTokens = KeywordAsIdentifier(kw)) =>
            (pLast.res.ok <=> ~is_reserved(pTokens[5].text))

\* ========================================================== type checker
\* TypeChecker::check_expr is a function of the expression, the scope and
\* the catalog.  It is applied to one expression over a scope that holds
\* the table `users`.

\* Arguments a modelled call holds at most.
MaxArgs == 2

\* The scope of `FROM users`.
TcScope ==
    add_table(NewScope,
              ScopeTable("users", "users",
                         table_schema_to_columns(CatalogTables.users, "users")))

\* id (NOT NULL), name (nullable), nosuch, 1, COUNT(id), count(id), SUM(id)
\* as an Aggregate node
TcLeaves ==
    { EInt, EId("id"), EId("name"), EId("nosuch"),
      ECall("Function", "COUNT", <<EId("id")>>),
      ECall("Function", "count", <<EInt>>),
      ECall("Aggregate", "SUM", <<EId("id")>>) }

\* The expressions with `e` as an operand.
TcWrap(e) ==
    { ECall("Function", "UPPER", <<e>>),
      ECall("Function", "upper", <<EStr, e>>),
      ECall("Function", "ABS", <<e>>),
      ECall("Function", "SUM", <<e>>),
      ECall("Aggregate", "SUM", <<e>>),
      ECall("WindowFunction", "SUM", <<e>>),
      Expr("Between", "", <<>>, "", <<e, EInt, EInt>>, T("Unknown")),
      Expr("Between", "", <<>>, "", <<EInt, EInt, e>>, T("Unknown")),
      Expr("In", "", <<>>, "", <<EInt, e>>, T("Unknown")),
      Expr("Like", "", <<>>, "", <<e, EStr>>, T("Unknown")),
      Expr("IsExpr", "", <<>>, "", <<e>>, T("Unknown")),
      ECast(e, T("Int64")),
      EParen(e),
      EUnary("Minus", e),
      EBin("Plus", e, EInt),
      EBin("Lt", EInt, e),
      EBin("And", e, e) }

\* name(id, ..., id) with 0 .. MaxArgs arguments, as a Function, an
\* Aggregate and a WindowFunction node.
TcCalls ==
    { ECall(kind, name, [i \in 1..n |-> EId("id")]) :
        kind \in {"Function", "Aggregate", "WindowFunction"},
        name \in {"UPPER", "SUM", "ABS", "COUNT", "ROW_NUMBER", "count", "NOSUCH"},
        n \in 0..MaxArgs }

TcExprs ==
    TcLeaves \cup TcCalls
        \cup UNION {TcWrap(e) : e \in TcLeaves}
        \cup UNION {TcWrap(w) : w \in UNION {TcWrap(e) : e \in TcLeaves}}

InitTypeChecker ==
    /\ tcExpr \in TcExprs
    /\ tcLast = NoCheck

InitSpecTypeChecker ==
    InitTypeChecker /\ InitAnalyzer /\ IdleLexer /\ IdleParser /\ IdleSqlType
        /\ IdleCatalog

\* checker.check_expr(&expr, &scope)
CheckExpr ==
    /\ tcLast.op = "none"
    /\ \E ord \in HashOrders :
          tcLast' = [op |-> "check_expr", res |-> check_expr(tcExpr, TcScope, ord)]
    /\ UNCHANGED tcExpr
    /\ UNCHANGED <<aVars, lVars, pVars, sVars, cVars>>

NextTypeChecker == CheckExpr

SpecTypeChecker == InitSpecTypeChecker /\ [][NextTypeChecker]_vars

\* ----------------------------------------------- type checker properties

\* The node is itself an aggregate call.
IsAggregateCall(e) ==
    \/ e.kind = "Aggregate"
    \/ /\ e.kind = "Function"
       /\ resolve_function(e.name) # <<>>
       /\ resolve_function(e.name)[1].is_aggregate

\* A child expression of the node has contains_aggregate true.
ChildContainsAggregate(e) ==
    \E i \in 1..Len(e.args) :
        LET child == check_expr(e.args[i], TcScope, KeyOrder)
        IN  child.ok /\ child.te.contains_aggregate

\* C11: contains_aggregate of an analysed expression is true iff the node
\* is itself an aggregate call or one of its child expressions has
\* contains_aggregate true.
C11_ContainsAggregate ==
    (tcLast.op = "check_expr" /\ tcLast.res.ok) =>
        (tcLast.res.te.contains_aggregate
            <=> (IsAggregateCall(tcExpr) \/ ChildContainsAggregate(tcExpr)))

\* C20: a function call (scalar, aggregate or window) whose argument count
\* lies outside [min_args, max_args] of its catalog signature is rejected
\* with WrongArgumentCount.
C20_ArgumentCountChecked ==
    LET rejected(sig) ==
            (sig # <<>> /\ ~accepts_arg_count(sig[1], Len(tcExpr.args))) =>
                (~tcLast.res.ok /\ tcLast.res.err.kind = "WrongArgumentCount")
    IN  (tcLast.op = "check_expr"
           /\ tcExpr.kind \in {"Function", "Aggregate", "WindowFunction"}) =>
            rejected(resolve_function(tcExpr.name))

\* The node is a comparison, a logical operation, IS, IN, LIKE or BETWEEN.
IsPredicate(e) ==
    \/ e.kind \in {"Between", "In", "Like", "IsExpr"}
    \/ /\ e.kind = "BinaryOp"
       /\ e.op \in {"Eq", "NotEq", "Lt", "LtEq", "Gt", "GtEq", "And", "Or"}

\* An operand of the node is nullable.
OperandNullable(e) ==
    \E i \in 1..Len(e.args) :
        LET operand == check_expr(e.args[i], TcScope, KeyOrder)
        IN  operand.ok /\ operand.te.nullable

\* C21: a comparison, logical, IS, IN, LIKE or BETWEEN expression has
\* type Bool and is nullable whenever one of its operands is nullable.
C21_PredicateNullability ==
    (tcLast.op = "check_expr" /\ tcLast.res.ok /\ IsPredicate(tcExpr)) =>
        /\ tcLast.res.te.data_type = T("Bool")
        /\ OperandNullable(tcExpr) => tcLast.res.te.nullable

\* ============================================================== SqlType

\* Nesting depth of the Array types.
MaxDepth == 2

\* Numeric { precision, scale }: None/None, (10, 2) and (5, 0).
NumericTypes ==
    { [tag |-> "Numeric", precision |-> ps[1], scale |-> ps[2], elem |-> <<>>] :
        ps \in {<<-1, -1>>, <<10, 2>>, <<5, 0>>} }

ScalarTypes ==
    { T(tag) : tag \in {"Bool", "Int32", "Int64", "Uint32", "Uint64", "Float32",
                        "Float64", "Varchar", "Date", "Datetime", "Timestamp",
                        "Unknown", "Any"} } \cup NumericTypes

\* The types with at most d levels of Array around a scalar type.
RECURSIVE TypesOfDepth(_)
TypesOfDepth(d) ==
    IF d = 0 THEN ScalarTypes
    ELSE ScalarTypes \cup
            { [tag |-> "Array", precision |-> -1, scale |-> -1, elem |-> <<e>>] :
                e \in TypesOfDepth(d - 1) }

SqlTypes == TypesOfDepth(MaxDepth)

InitSqlType ==
    /\ stA \in SqlTypes
    /\ stB \in SqlTypes
    /\ stLast = NoTypes

InitSpecSqlType ==
    InitSqlType /\ InitAnalyzer /\ IdleLexer /\ IdleParser /\ IdleTypeChecker
        /\ IdleCatalog

\* stA.common_supertype(&stB)
CommonSupertype ==
    /\ stLast.op = "none"
    /\ stLast' = [op |-> "common_supertype", supertype |-> common_supertype(stA, stB),
                  coerces |-> FALSE]
    /\ UNCHANGED <<stA, stB>>
    /\ UNCHANGED <<aVars, lVars, pVars, tVars, cVars>>

\* stA.can_coerce_to(&stB)
CanCoerceTo ==
    /\ stLast.op = "none"
    /\ stLast' = [op |-> "can_coerce_to", supertype |-> <<>>,
                  coerces |-> can_coerce_to(stA, stB)]
    /\ UNCHANGED <<stA, stB>>
    /\ UNCHANGED <<aVars, lVars, pVars, tVars, cVars>>

NextSqlType == CommonSupertype \/ CanCoerceTo

SpecSqlType == InitSpecSqlType /\ [][NextSqlType]_vars

\* --------------------------------------------------- SqlType properties

\* C14: common_supertype is commutative: what a.common_supertype(b)
\* returned is what b.common_supertype(a) returns, for every pair of types
\* (Unknown, Any, Numeric of any precision and scale, nested Arrays).
C14_CommonSupertypeCommutative ==
    stLast.op = "common_supertype" => stLast.supertype = common_supertype(stB, stA)

\* Two different nested Array types, one of them over a Numeric with a
\* precision, have a common supertype.
C14_Witness ==
    /\ stLast.op = "common_supertype"
    /\ stLast.supertype # <<>>
    /\ stA # stB
    /\ stA.tag = "Array" /\ stA.elem[1].tag = "Array"
    /\ stA.elem[1].elem[1].tag = "Numeric" /\ stA.elem[1].elem[1].precision = 10
    /\ stB.tag = "Array"

\* C15: when a.common_supertype(b) is Some(s), a and b coerce to s, and s
\* coerces to every type that both a and b coerce to.
C15_SupertypeIsLeastUpperBound ==
    (stLast.op = "common_supertype" /\ stLast.supertype # <<>>) =>
        /\ can_coerce_to(stA, stLast.supertype[1])
        /\ can_coerce_to(stB, stLast.supertype[1])
        /\ \A t \in SqlTypes :
              (can_coerce_to(stA, t) /\ can_coerce_to(stB, t)) =>
                  can_coerce_to(stLast.supertype[1], t)

\* ============================================================== catalog
\* A CatalogBuilder owns a MemoryCatalog until build() returns it; after
\* build() the catalog is the caller's, who may go on adding to it.

\* Calls made on one builder and its catalog.
MaxCatalogCalls == 4

\* MemoryCatalog::add_schema: HashMap::entry(name).or_insert_with(empty)
memory_add_schema(schs, name) ==
    IF name \in DOMAIN schs THEN schs ELSE MapInsert(schs, name, EmptyMap)

\* catalog.add_schema(name).tables.insert(table.name, table): the caller
\* fills the SchemaDefinition that add_schema returns.
add_schema_table(schs, name, table) ==
    LET added == memory_add_schema(schs, name)
    IN  MapInsert(added, name, MapInsert(added[name], table.name, table))

\* MemoryCatalog::add_function: HashMap::insert(func.name, func)
memory_add_function(fns, func) == MapInsert(fns, func.name, func)

\* A FunctionSignature with its name.
NamedSignature(name, kind, return_type) ==
    [name |-> name, sig |-> FunctionSignature(kind, return_type, 0, <<>>)]

\* Three of the functions MemoryCatalog::register_builtins adds.
Builtins ==
    << NamedSignature("COUNT", "aggregate", T("Int64")),
       NamedSignature("SUM", "aggregate", T("Float64")),
       NamedSignature("UPPER", "scalar", T("Varchar")) >>

\* MemoryCatalog::register_builtins: add_function for each, in order
RECURSIVE register_from(_, _)
register_from(fns, i) ==
    IF i > Len(Builtins) THEN fns
    ELSE register_from(memory_add_function(fns, Builtins[i]), i + 1)
register_builtins(fns) == register_from(fns, 1)

\* MemoryCatalog::resolve_function on a one-part name: <<>> is None.
memory_resolve_function(fns, name) ==
    IF to_uppercase(name) \in DOMAIN fns THEN <<fns[to_uppercase(name)]>> ELSE <<>>

\* MemoryCatalog::resolve_table: <<>> is None.
memory_resolve_table(schs, name) ==
    LET schema_name == CASE Len(name) = 1 -> "default"
                         [] Len(name) = 2 -> name[1]
                         [] Len(name) = 3 -> name[2]
                         [] OTHER -> ""
        table_name == IF Len(name) \in 1..3 THEN name[Len(name)] ELSE ""
    IN  IF Len(name) \in 1..3 /\ schema_name \in DOMAIN schs
            /\ table_name \in DOMAIN schs[schema_name]
        THEN <<schs[schema_name][table_name]>>
        ELSE <<>>

\* MemoryCatalog::list_schemas: the keys of a HashMap, in any order.
list_schemas(schs) ==
    { order \in [1..Cardinality(DOMAIN schs) -> DOMAIN schs] :
        \A i, j \in DOMAIN order : i # j => order[i] # order[j] }

\* The schema names, tables and functions the callers use.
SchemaNames == {"Sales", "sales", "SALES", "default"}
TableT == [name |-> "t", columns |-> <<Column("id", T("Int64"), FALSE)>>]
AddedFunctions ==
    { NamedSignature("MY_FUNC", "scalar", T("Int64")),
      NamedSignature("my_func", "scalar", T("Varchar")),
      NamedSignature("UPPER", "scalar", T("Int64")),
      NamedSignature("SUM", "window", T("Int64")) }

\* CatalogBuilder::new
InitCatalog ==
    /\ schemas = EmptyMap
    /\ functions = EmptyMap
    /\ include_builtins = FALSE
    /\ built = FALSE
    /\ cAdded = <<>>
    /\ cCalls = 0
    /\ cLast = NoLookup

InitSpecCatalog ==
    InitCatalog /\ InitAnalyzer /\ IdleLexer /\ IdleParser /\ IdleTypeChecker
        /\ IdleSqlType

\* What every call on the builder or the catalog does besides its own work.
CatalogCall ==
    /\ cCalls < MaxCatalogCalls
    /\ cCalls' = cCalls + 1
    /\ UNCHANGED <<aVars, lVars, pVars, tVars, sVars>>

\* CatalogBuilder::with_builtins
WithBuiltins ==
    /\ ~built
    /\ CatalogCall
    /\ include_builtins' = TRUE
    /\ UNCHANGED <<schemas, functions, built, cAdded, cLast>>

\* CatalogBuilder::add_function (add_scalar_function, add_aggregate_function
\* and add_window_function build the signature and do the same)
BuilderAddFunction(func) ==
    /\ ~built
    /\ CatalogCall
    /\ functions' = memory_add_function(functions, func)
    /\ cAdded' = Append(cAdded, func)
    /\ UNCHANGED <<schemas, include_builtins, built, cLast>>

\* CatalogBuilder::add_schema before build(), MemoryCatalog::add_schema
\* after it
AddSchema(name) ==
    /\ CatalogCall
    /\ schemas' = memory_add_schema(schemas, name)
    /\ UNCHANGED <<functions, include_builtins, built, cAdded, cLast>>

\* catalog.add_schema(name).tables.insert("t", t) on the built catalog
AddSchemaTable(name) ==
    /\ built
    /\ CatalogCall
    /\ schemas' = add_schema_table(schemas, name, TableT)
    /\ UNCHANGED <<functions, include_builtins, built, cAdded, cLast>>

\* CatalogBuilder::build
Build ==
    /\ ~built
    /\ CatalogCall
    /\ functions' = IF include_builtins THEN register_builtins(functions) ELSE functions
    /\ built' = TRUE
    /\ UNCHANGED <<schemas, include_builtins, cAdded, cLast>>

\* A query on the built catalog.
CatalogQuery(op, name, res) ==
    /\ cCalls < MaxCatalogCalls + 1
    /\ cCalls' = cCalls + 1
    /\ cLast' = [op |-> op, name |-> name, res |-> res]
    /\ UNCHANGED <<schemas, functions, include_builtins, built, cAdded>>
    /\ UNCHANGED <<aVars, lVars, pVars, tVars, sVars>>

\* MemoryCatalog::resolve_function(&[name])
ResolveFunction(name) ==
    /\ built
    /\ CatalogQuery("resolve_function", <<name>>,
                    memory_resolve_function(functions, name))

\* MemoryCatalog::resolve_table(&[schema, "t"])
ResolveTable(schema) ==
    /\ built
    /\ CatalogQuery("resolve_table", <<schema, "t">>,
                    memory_resolve_table(schemas, <<schema, "t">>))

\* MemoryCatalog::list_schemas
ListSchemas ==
    /\ built
    /\ \E order \in list_schemas(schemas) : CatalogQuery("list_schemas", <<>>, order)

NextCatalog ==
    \/ WithBuiltins
    \/ \E func \in AddedFunctions : BuilderAddFunction(func)
    \/ \E name \in SchemaNames : AddSchema(name)
    \/ \E name \in SchemaNames : AddSchemaTable(name)
    \/ Build
    \/ \E func \in AddedFunctions : ResolveFunction(func.name)
    \/ \E name \in SchemaNames : ResolveTable(to_lowercase(name))
    \/ ListSchemas

SpecCatalog == InitSpecCatalog /\ [][NextCatalog]_vars

\* --------------------------------------------------- catalog properties

\* C22: schemas are stored under their lowercased name: every key of the
\* schema map is a lowercase name, so list_schemas reports lowercase(N)
\* for an added N, and the tables put into schema N are found by
\* resolve_table([lowercase(N), t]).
C22_SchemasLowercased ==
    /\ \A name \in DOMAIN schemas : name = to_lowercase(name)
    /\ (cLast.op = "list_schemas") =>
            \A i \in DOMAIN cLast.res : cLast.res[i] = to_lowercase(cLast.res[i])
    /\ (cLast.op = "resolve_table") =>
            ((\E name \in DOMAIN schemas :
                 to_lowercase(name) = cLast.name[1] /\ "t" \in DOMAIN schemas[name])
               => cLast.res # <<>>)

\* The last function added through the builder under the name `name`
\* (compared as resolve_function compares: in upper case); <<>> if none.
LastAdded(name) ==
    LET hits == SelectSeq(cAdded, LAMBDA f: to_uppercase(f.name) = to_uppercase(name))
    IN  IF hits = <<>> THEN <<>> ELSE <<hits[Len(hits)].sig>>

====
